---------------------------- MODULE Spec2Model ----------------------------
(***************************************************************************)
(* Model of the batch orchestration engine of midiToAudio:                 *)
(*   src/src/batchProcessor.js   processBatch, ProcessingStats             *)
(*   src/src/pipeline.js         processMidiDocument(WithRetry)            *)
(*   src/src/filesystem/fileWriter.js   writeFileAtomic, fileExists        *)
(*   src/unnamed/part_004        generateOutputPath, generateUniquePath    *)
(*   src/src/utils/tempFiles.js  getTempFilePath, deleteTempFile           *)
(*   src/src/processors/audioNormalizer.js  normalizeAudio, renderMidiToWav*)
(*   src/src/processors/mp3Encoder.js       encodeToMp3                    *)
(*                                                                         *)
(* One action is one run of JavaScript from the resumption of an await to  *)
(* the next suspension.  Promise reactions that touch no shared state and  *)
(* follow in the same microtask drain (the retry wrapper's catch, the      *)
(* unit's recordSuccess/recordFailure, the finally callback that removes   *)
(* the promise from activePromises) are part of the step that settles the  *)
(* awaited call.  A failure of the environment (a rejected store write, a   *)
(* failed transform or file operation, an rmSync that throws) takes one    *)
(* unit of the budget faultsLeft.                                          *)
(***************************************************************************)
EXTENDS Integers, Sequences, FiniteSets, TLC

VARIABLES
    cursorDocs,      \* the records the cursor of this run yields, in cursor order
    concurrency,     \* options.concurrency
    maxRetries,      \* parameter of processMidiDocumentWithRetry
    crossDevice,     \* temp directory and output directory on different filesystems
    faultsLeft,      \* environment failures still to be injected
    mainPc,          \* position of processBatch
    pulled,          \* number of records pulled from the cursor
    activePromises,  \* the Set of batchProcessor.js:89 (unit indexes)
    raceSet,         \* the promises handed to Promise.race / Promise.all
    units,           \* per launched record: position and locals of its unit
    stats,           \* ProcessingStats
    status,          \* the store's midiToAudioProcessing field per record
    writes,          \* per record: the updateProcessingStatus calls issued, in order
    outDisk,         \* the output tree: path -> file
    tmpDisk,         \* the temp directory: path -> file
    tempFiles,       \* the live set of tempFiles.js:8
    limit,           \* options.limit (0: none)
    cli,             \* position, mode and exit status of the command-line program
    callArgs,        \* the arguments of a call of a function of the library
    callResult       \* what that call returned

vars == <<cursorDocs, concurrency, maxRetries, crossDevice, faultsLeft, mainPc,
          pulled, activePromises, raceSet, units, stats, status, writes,
          outDisk, tmpDisk, tempFiles, limit, cli, callArgs, callResult>>

-----------------------------------------------------------------------------
(* Bounds of the model *)

MaxDocs == 3

MaxConcurrency == 2

MaxFaults == 1

MaxRetriesBound == 2

MaxLimit == 2

MaxCliDocs == 2

UnitFaults == 3

\* the size of a file and the free space of a file system, in blocks
MaxFileSize == 4

\* the files the sweep at the end of the process fails to delete
MaxUndeletable == 1

\* the length of a string given to sanitizePathComponent, and its characters
MaxStrLen == 4

StrChars == {"a", " ", ".", "/", "<", "\t"}

\* how many characters short of the length cap the long strings begin
MaxShort == 2

\* the length of an argument of the command line, and its characters
MaxArgLen == 2

ArgChars == {"0", "1", "2", "8", "a", "-"}

\* the bytes that follow the header of a MIDI buffer, and their values
MaxTail == 2

TailBytes == {0, 77, 255}

\* the length of any other payload, and its bytes or character codes ('a' is 97)
MaxPayloadLen == 2

PayloadBytes == {0, 97, 255}

(* Program constants *)

DefaultMaxRetries == 2

ShortHashLen == 8

-----------------------------------------------------------------------------
(* Strings are sequences of one-character strings. *)

NoHash == <<>>

Null == <<>>

ext == <<".", "m", "p", "3">>

OutputDirectory == <<"o">>

Hash(c, d) == <<c, c, c, c, c, c, c, c, d>>

\* A stored record: midifile.hash, the kind of midifile.data ("midi" renders,
\* "silent" renders to silence, "none" is absent), midifile.fileName, and the
\* metadata a path is built from (an absent value is Null; no artist or album
\* is stored).
Record(hash, data, title, fileName) ==
    [hash |-> hash, data |-> data, fileName |-> fileName,
     musicLLM |-> [artist |-> Null, album |-> Null, title |-> title],
     musicbrainz |-> [top    |-> [artist |-> Null, title |-> Null],
                      oldest |-> [artist |-> Null, title |-> Null]],
     redacted |-> [artist |-> Null, album |-> Null, release |-> Null, title |-> Null]]

(* The collection, in natural order: two renderable records that resolve to   *)
(* the same artist/album/title (one by its title, one by its file name), one  *)
(* without payload, one whose audio is silent and one without hash.           *)
Collection ==
    << Record(Hash("a", "1"), "midi",   <<"T">>, Null),
       Record(Hash("d", "4"), "none",   <<"V">>, Null),
       Record(Hash("b", "2"), "midi",   Null,    <<" ", "T", ":", ".", "M", "i", "d">>),
       Record(Hash("c", "3"), "silent", <<"U">>, Null),
       Record(NoHash,         "midi",   <<"W">>, Null) >>

-----------------------------------------------------------------------------
(* Output Path Resolver *)

\* String.prototype.substring(0, n)
substring(s, n) == SubSeq(s, 1, IF n < Len(s) THEN n ELSE Len(s))

\* String.prototype.slice(0, -n)
sliceEnd(s, n) == SubSeq(s, 1, IF Len(s) > n THEN Len(s) - n ELSE 0)

\* a || b on strings and undefined
Or(a, b) == IF a # Null THEN a ELSE b

InvalidChars == {"<", ">", ":", "\"", "/", "\\", "|", "?", "*", "\t", "\n", "\r", "\f"}

WhiteSpace == {" "}

MaxComponentLength == 200

\* const delay = attempt * 1000
RetryDelayMs == 1000

Unknown == <<"U", "n", "k", "n", "o", "w", "n">>

\* .replace(/^[\s.]+|[\s.]+$/g, '')
trimDotsAndSpaces(s) ==
    LET T == WhiteSpace \cup {"."}
        lead == CHOOSE n \in 0..Len(s) :
                    /\ \A k \in 1..n : s[k] \in T
                    /\ n < Len(s) => s[n + 1] \notin T
        trail == CHOOSE n \in 0..Len(s) :
                    /\ \A k \in (Len(s) - n + 1)..Len(s) : s[k] \in T
                    /\ n < Len(s) => s[Len(s) - n] \notin T
    IN IF lead = Len(s) THEN <<>> ELSE SubSeq(s, lead + 1, Len(s) - trail)

\* .replace(/\s+/g, ' ')
\* (the first character of a run of white space becomes a space, the others
\* of the run are dropped)
collapseSpaces(s) ==
    LET dropped == ""
        replaced == [k \in 1..Len(s) |->
                        IF s[k] \notin WhiteSpace THEN s[k]
                        ELSE IF k > 1 /\ s[k - 1] \in WhiteSpace THEN dropped
                        ELSE " "]
    IN SelectSeq(replaced, LAMBDA c : c # dropped)

\* the value of the one element of a singleton
The(S) == CHOOSE x \in S : TRUE

\* The method chain of sanitizePathComponent, each intermediate string being
\* computed once: stripped = str.replace(invalidChars, ''), trimmed, collapsed.
\* values that are not strings: a number, an object, true
NonStringValues == {<<"number">>, <<"object">>, <<"boolean">>}

\* sanitizePathComponent without its fallback for an empty result
sanitizePathComponent_NoFallback(str) ==
    IF str = Null \/ str \in NonStringValues THEN Unknown
    ELSE substring(collapseSpaces(trimDotsAndSpaces(
             SelectSeq(str, LAMBDA c : c \notin InvalidChars))), MaxComponentLength)

sanitizePathComponent(str) ==
    IF str = Null \/ str \in NonStringValues THEN Unknown
    ELSE The({ Or(substring(collapsed, MaxComponentLength), Unknown) :
                 collapsed \in { collapseSpaces(trimmed) :
                   trimmed \in { trimDotsAndSpaces(stripped) :
                     stripped \in { SelectSeq(given, LAMBDA c : c \notin InvalidChars) :
                       given \in {str} } } } })

UnknownArtist == Unknown \o <<" ", "A", "r", "t", "i", "s", "t">>

UnknownAlbum == Unknown \o <<" ", "A", "l", "b", "u", "m">>

UnknownTitle == Unknown \o <<" ", "T", "i", "t", "l", "e">>

extractArtist(document) ==
    Or(document.musicLLM.artist,
    Or(document.musicbrainz.top.artist,
    Or(document.redacted.artist,
    Or(document.musicbrainz.oldest.artist, UnknownArtist))))

extractAlbum(document) ==
    Or(document.musicLLM.album,
    Or(document.redacted.album,
    Or(document.redacted.release, UnknownAlbum)))

\* fileName.toString().replace(/\.mid$/i, '')
withoutMidSuffix(s) ==
    LET n == Len(s) IN
    IF /\ n >= 4
       /\ s[n - 3] = "."
       /\ s[n - 2] \in {"m", "M"}
       /\ s[n - 1] \in {"i", "I"}
       /\ s[n] \in {"d", "D"}
    THEN SubSeq(s, 1, n - 4) ELSE s

extractTitle(document) ==
    Or(document.musicLLM.title,
    Or(document.musicbrainz.top.title,
    Or(document.redacted.title,
    Or(document.musicbrainz.oldest.title,
    Or(IF document.fileName # Null THEN withoutMidSuffix(document.fileName) ELSE Null,
       UnknownTitle)))))

\* path.join of components that hold no separator
join(a, b) == a \o <<"/">> \o b

generateOutputPath(document) ==
    LET artist == sanitizePathComponent(extractArtist(document))
        album == sanitizePathComponent(extractAlbum(document))
        title == sanitizePathComponent(extractTitle(document))
        relativePath == join(artist, join(album, title \o ext))
    IN join(OutputDirectory, relativePath)

generateUniquePath_Short(basePath, hash) ==
    sliceEnd(basePath, Len(ext)) \o <<"_">> \o substring(hash, ShortHashLen - 1) \o ext

generateUniquePath(basePath, hash) ==
    sliceEnd(basePath, Len(ext)) \o <<"_">> \o substring(hash, ShortHashLen) \o ext

fileExists(filePath) == filePath \in DOMAIN outDisk


-----------------------------------------------------------------------------
(* TempResource Manager.  randomBytes(16) names are fresh; the name drawn by *)
(* unit i in attempt a for one of its files is written <<i, a, kind>>.       *)

TempPath(i, a, kind) == <<i, a, kind>>

\* the file system: a map from the paths that exist to their files
Put(disk, path, file) == (path :> file) @@ disk

Remove(disk, path) == [q \in DOMAIN disk \ {path} |-> disk[q]]

RemoveAll(disk, paths) == [q \in DOMAIN disk \ paths |-> disk[q]]

\* deleteTempFile(filepath) on fs = [disk, live], the temp directory and the
\* live set, deregistering the path also when rmSync has thrown
deleteTempFile_Deregistering(fs, filepath, fails) ==
    IF fails THEN [disk |-> fs.disk, live |-> fs.live \ {filepath}]
    ELSE [disk |-> Remove(fs.disk, filepath), live |-> fs.live \ {filepath}]

\* deleteTempFile(filepath): rmSync(filepath, {force: true}) removes the file
\* if it is there and the path leaves the live set; when rmSync throws, the
\* catch logs the error and nothing changes
deleteTempFile(fs, filepath, fails) ==
    IF fails THEN fs
    ELSE [disk |-> Remove(fs.disk, filepath), live |-> fs.live \ {filepath}]

Whole == [complete |-> TRUE]

Partial == [complete |-> FALSE]

-----------------------------------------------------------------------------
(* ProcessingStats *)

NewStats == [processed |-> 0, successful |-> 0, failed |-> 0, errors |-> <<>>]

recordSuccess(s) ==
    [s EXCEPT !.processed = @ + 1, !.successful = @ + 1]

\* recordFailure without the count of the processed records
recordFailure_Uncounted(s, error) ==
    [s EXCEPT !.failed = @ + 1, !.errors = Append(@, error)]

recordFailure(s, error) ==
    [s EXCEPT !.processed = @ + 1, !.failed = @ + 1, !.errors = Append(@, error)]

\* the object processBatch returns (its total, progress, duration and rate
\* are left out)
getSummary(s) ==
    [processed |-> s.processed, successful |-> s.successful, failed |-> s.failed]

-----------------------------------------------------------------------------
(* State of one unit: the async function of batchProcessor.js:93-121 with the *)
(* locals of processMidiDocumentWithRetry, processMidiDocument and            *)
(* writeFileAtomic.                                                           *)

IdleUnit ==
    [pc |-> "idle", attempt |-> 0, wavPath |-> Null, normalizedWavPath |-> Null,
     tempMp3Path |-> Null, outputPath |-> Null, collided |-> FALSE,
     tempPath |-> Null, lastError |-> "none", errors |-> <<>>, outcome |-> "pending",
     delay |-> 0]

Doc(i) == cursorDocs[i]

UnknownHash == <<"u", "n", "k", "n", "o", "w", "n">>

\* document.midifile?.hash || 'unknown'
HashOrUnknown(i) == IF Doc(i).hash = NoHash THEN UnknownHash ELSE Doc(i).hash

\* the wait condition of the promise pool
MustWait_OffByOne(active) == Cardinality(active) > concurrency

MustWait(active) == Cardinality(active) >= concurrency

\* the retry loop's test for another attempt
MayRetry_OneLess(attempt) == attempt < maxRetries

MayRetry(attempt) == attempt <= maxRetries

\* In a unit record, errors lists the errors processMidiDocument has thrown in
\* the attempts so far, and outcome tells how the unit's promise settled.

\* The unit goes on; nothing settles.
Continue(i, u, active) ==
    /\ units' = [units EXCEPT ![i] = u]
    /\ activePromises' = active
    /\ UNCHANGED stats

ReturnResult_NeverSettles(i, u, active) ==
    /\ units' = [units EXCEPT ![i] = [u EXCEPT !.pc = "pending"]]
    /\ UNCHANGED stats
    /\ activePromises' = active

\* processMidiDocument returned: the retry wrapper returns the result, the unit
\* records the success and its promise resolves; the finally callback removes
\* it from activePromises.
ReturnResult(i, u, active) ==
    /\ units' = [units EXCEPT ![i] = [u EXCEPT !.pc = "done", !.outcome = "success"]]
    /\ stats' = recordSuccess(stats)
    /\ activePromises' = active \ {i}

\* the catch of the retry wrapper setting the same delay after every attempt
RetryCatch_ConstantDelay(i, u, error, active) ==
    IF MayRetry(u.attempt)
    THEN /\ units' = [units EXCEPT ![i] = [u EXCEPT !.pc = "backoff", !.lastError = error,
                                                     !.errors = Append(@, error),
                                                     !.delay = RetryDelayMs]]
         /\ activePromises' = active
         /\ UNCHANGED stats
    ELSE /\ units' = [units EXCEPT ![i] = [u EXCEPT !.pc = "done", !.lastError = error,
                                                     !.errors = Append(@, error),
                                                     !.outcome = "failure"]]
         /\ stats' = recordFailure(stats, [hash |-> HashOrUnknown(i), error |-> error])
         /\ activePromises' = active \ {i}

\* processMidiDocument threw: the catch of the retry wrapper.  Either the
\* backoff timer is set (delay is the time of the timer set last, in ms), or
\* the loop ends, lastError is thrown, the unit records the failure and its
\* promise resolves.
RetryCatch(i, u, error, active) ==
    IF MayRetry(u.attempt)
    THEN /\ units' = [units EXCEPT ![i] = [u EXCEPT !.pc = "backoff", !.lastError = error,
                                                     !.errors = Append(@, error),
                                                     !.delay = u.attempt * RetryDelayMs]]
         /\ activePromises' = active
         /\ UNCHANGED stats
    ELSE /\ units' = [units EXCEPT ![i] = [u EXCEPT !.pc = "done", !.lastError = error,
                                                     !.errors = Append(@, error),
                                                     !.outcome = "failure"]]
         /\ stats' = recordFailure(stats, [hash |-> HashOrUnknown(i), error |-> error])
         /\ activePromises' = active \ {i}

\* The synchronous start of processMidiDocument: hash check, extraction of the
\* payload, and the call of updateProcessingStatus(hash, 'processing').
BeginAttempt(i, u, active) ==
    IF Doc(i).hash = NoHash
    THEN RetryCatch(i, u, "missing hash", active) /\ UNCHANGED writes
    ELSE IF Doc(i).data = "none"
    THEN RetryCatch(i, u, "missing data", active) /\ UNCHANGED writes
    ELSE /\ Continue(i, [u EXCEPT !.pc = "wProcessing"], active)
         /\ writes' = [writes EXCEPT ![i] = Append(@, "processing")]

ToCatch_LastOnly(i, u, error) ==
    /\ Continue(i, [u EXCEPT !.pc = "wFailed", !.lastError = error], activePromises)
    /\ writes' = [writes EXCEPT ![i] = IF MayRetry(u.attempt) THEN @ ELSE Append(@, "failed")]

\* ToCatch going on with the encode stage instead of the catch block
ToCatch_SkippingStage(i, u, error) ==
    /\ Continue(i, [u EXCEPT !.pc = "encode", !.lastError = error], activePromises)
    /\ UNCHANGED writes

\* An error thrown inside the try block of processMidiDocument: the catch
\* calls updateProcessingStatus(hash, 'failed') and waits for it.
ToCatch(i, u, error) ==
    /\ Continue(i, [u EXCEPT !.pc = "wFailed", !.lastError = error], activePromises)
    /\ writes' = [writes EXCEPT ![i] = Append(@, "failed")]

\* The finally block of processMidiDocument.
AttemptTemps(u) == {u.wavPath, u.normalizedWavPath, u.tempMp3Path} \ {Null}

\* rmSync throws for the paths of failed
Cleanup(u, failed) ==
    LET delete(fs, path) ==
            IF path # Null THEN deleteTempFile(fs, path, path \in failed) ELSE fs
        released == delete(delete(delete([disk |-> tmpDisk, live |-> tempFiles],
                                         u.wavPath), u.normalizedWavPath), u.tempMp3Path)
    IN /\ tmpDisk' = released.disk
       /\ tempFiles' = released.live

\* the deletions of the finally block that may fail: those of files that exist
DeletionFailures(u) == SUBSET (AttemptTemps(u) \cap DOMAIN tmpDisk)

\* the locals go out of scope when the attempt ends
EndAttempt(u) ==
    [u EXCEPT !.wavPath = Null, !.normalizedWavPath = Null, !.tempMp3Path = Null,
              !.outputPath = Null, !.collided = FALSE, !.tempPath = Null]

\* what a step of a unit leaves alone
mainVars == <<cursorDocs, concurrency, maxRetries, crossDevice, mainPc, pulled, raceSet,
              limit, cli, callArgs, callResult>>

Fault == /\ faultsLeft > 0
         /\ faultsLeft' = faultsLeft - 1

NoFault == UNCHANGED faultsLeft

\* n failures of the environment in one step
FaultsUsed(n) ==
    /\ faultsLeft >= n
    /\ faultsLeft' = faultsLeft - n


-----------------------------------------------------------------------------
(* processMidiDocument, one action per resumed await *)

\* StatusProcessingDone going on to the render stage when the write failed
StatusProcessingDone_Swallowing(i) ==
    LET u == units[i] IN
    /\ i <= pulled
    /\ u.pc = "wProcessing"
    /\ \/ /\ NoFault
          /\ status' = [status EXCEPT ![i].status = "processing"]
       \/ /\ Fault
          /\ UNCHANGED status
    /\ tempFiles' = tempFiles \cup {TempPath(i, u.attempt, "wav")}
    /\ Continue(i, [u EXCEPT !.pc = "rCheck",
                             !.wavPath = TempPath(i, u.attempt, "wav")],
                activePromises)
    /\ UNCHANGED <<writes, outDisk, tmpDisk>>
    /\ UNCHANGED mainVars

\* await updateProcessingStatus(hash, 'processing') settles.  It is outside
\* the try block: when it throws, nothing is caught and nothing cleaned up.
StatusProcessingDone(i) ==
    LET u == units[i] IN
    /\ i <= pulled
    /\ u.pc = "wProcessing"
    /\ \/ /\ NoFault
          /\ status' = [status EXCEPT ![i].status = "processing"]
          /\ tempFiles' = tempFiles \cup {TempPath(i, u.attempt, "wav")}
          /\ Continue(i, [u EXCEPT !.pc = "rCheck",
                                   !.wavPath = TempPath(i, u.attempt, "wav")],
                      activePromises)
          /\ UNCHANGED writes
       \/ /\ Fault
          /\ RetryCatch(i, EndAttempt(u), "store error", activePromises)
          /\ UNCHANGED <<status, tempFiles, writes>>
    /\ UNCHANGED <<outDisk, tmpDisk>>
    /\ UNCHANGED mainVars

\* renderMidiToWav: checkFluidSynthAvailable settles; the soundfont is looked
\* up, the MIDI buffer is written to a temp file and fluidsynth is spawned.
RenderCheckDone(i) ==
    LET u == units[i]
        midiPath == TempPath(i, u.attempt, "mid") IN
    /\ i <= pulled
    /\ u.pc = "rCheck"
    /\ \/ /\ NoFault
          /\ tempFiles' = tempFiles \cup {midiPath}
          /\ tmpDisk' = Put(tmpDisk, midiPath, Whole)
          /\ Continue(i, [u EXCEPT !.pc = "rSpawn"], activePromises)
          /\ UNCHANGED writes
       \/ /\ Fault
          /\ ToCatch(i, u, "render error")
          /\ UNCHANGED <<tempFiles, tmpDisk>>
    /\ UNCHANGED <<status, outDisk>>
    /\ UNCHANGED mainVars

\* fluidsynth closes; the finally of renderMidiToWav deletes the MIDI temp
\* file.  On success processMidiDocument starts normalizeAudio (first pass).
RenderDone(i) ==
    LET u == units[i]
        midiPath == TempPath(i, u.attempt, "mid")
        normalizedWavPath == TempPath(i, u.attempt, "norm") IN
    /\ i <= pulled
    /\ u.pc = "rSpawn"
    /\ \/ /\ \E fails \in BOOLEAN :
                LET released == deleteTempFile([disk |-> tmpDisk, live |-> tempFiles],
                                               midiPath, fails) IN
                /\ FaultsUsed(IF fails THEN 1 ELSE 0)
                /\ tmpDisk' = Put(released.disk, u.wavPath, Whole)
                /\ tempFiles' = released.live \cup {normalizedWavPath}
          /\ Continue(i, [u EXCEPT !.pc = "nAnalyze",
                                   !.normalizedWavPath = normalizedWavPath],
                      activePromises)
          /\ UNCHANGED writes
       \/ /\ \E fails \in BOOLEAN, written \in BOOLEAN :
                LET released == deleteTempFile([disk |-> tmpDisk, live |-> tempFiles],
                                               midiPath, fails) IN
                /\ FaultsUsed(IF fails THEN 2 ELSE 1)
                /\ tmpDisk' = IF written THEN Put(released.disk, u.wavPath, Partial)
                                         ELSE released.disk
                /\ tempFiles' = released.live
          /\ ToCatch(i, u, "render error")
    /\ UNCHANGED <<status, outDisk>>
    /\ UNCHANGED mainVars

\* normalizeAudio: analyzeLoudness settles; silence is an error, otherwise the
\* second pass is started.
AnalyzeDone(i) ==
    LET u == units[i] IN
    /\ i <= pulled
    /\ u.pc = "nAnalyze"
    /\ \/ /\ Doc(i).data = "silent"
          /\ NoFault
          /\ ToCatch(i, u, "silent")
       \/ /\ Doc(i).data # "silent"
          /\ NoFault
          /\ Continue(i, [u EXCEPT !.pc = "nApply"], activePromises)
          /\ UNCHANGED writes
       \/ /\ Fault
          /\ ToCatch(i, u, "normalize error")
    /\ UNCHANGED <<status, outDisk, tmpDisk, tempFiles>>
    /\ UNCHANGED mainVars

\* normalizeAudio: the second pass ends; on success encodeToMp3 is started.
NormalizeDone(i) ==
    LET u == units[i]
        tempMp3Path == TempPath(i, u.attempt, "mp3") IN
    /\ i <= pulled
    /\ u.pc = "nApply"
    /\ \/ /\ NoFault
          /\ tmpDisk' = Put(tmpDisk, u.normalizedWavPath, Whole)
          /\ tempFiles' = tempFiles \cup {tempMp3Path}
          /\ Continue(i, [u EXCEPT !.pc = "encode", !.tempMp3Path = tempMp3Path],
                      activePromises)
          /\ UNCHANGED writes
       \/ /\ Fault
          /\ \E written \in BOOLEAN :
                tmpDisk' = IF written THEN Put(tmpDisk, u.normalizedWavPath, Partial)
                                      ELSE tmpDisk
          /\ UNCHANGED tempFiles
          /\ ToCatch(i, u, "normalize error")
    /\ UNCHANGED <<status, outDisk>>
    /\ UNCHANGED mainVars

\* Step 4 of processMidiDocument up to the first await of writeFileAtomic:
\* the output path is resolved and, when it exists, replaced by the unique path.
ResolveOutputPath(i) ==
    LET outputPath == generateOutputPath(Doc(i)) IN
    IF fileExists(outputPath) THEN generateUniquePath(outputPath, Doc(i).hash)
                              ELSE outputPath

\* encodeToMp3 settles; on success the output path is resolved and
\* writeFileAtomic is called (it waits for getAvailableSpace).
EncodeDone(i) ==
    LET u == units[i] IN
    /\ i <= pulled
    /\ u.pc = "encode"
    /\ \/ /\ NoFault
          /\ tmpDisk' = Put(tmpDisk, u.tempMp3Path, Whole)
          /\ Continue(i, [u EXCEPT !.pc = "cSpace",
                                   !.outputPath = ResolveOutputPath(i),
                                   !.collided = fileExists(generateOutputPath(Doc(i)))],
                      activePromises)
          /\ UNCHANGED writes
       \/ /\ Fault
          /\ \E written \in BOOLEAN :
                tmpDisk' = IF written THEN Put(tmpDisk, u.tempMp3Path, Partial)
                                      ELSE tmpDisk
          /\ ToCatch(i, u, "encode error")
    /\ UNCHANGED <<status, outDisk, tempFiles>>
    /\ UNCHANGED mainVars


-----------------------------------------------------------------------------
(* writeFileAtomic *)

OldFile == [of |-> <<"old">>, complete |-> TRUE]

\* the temp file renameSync moves: copyFile(sourcePath, tempPath) has been awaited
CopiedFile_NotAwaited == Partial

CopiedFile == Whole

Artifact(i, complete) == [of |-> Doc(i).hash, complete |-> complete]

\* updateProcessingStatus(hash, 'completed', {outputPath, ...}) is called
CallCompleted(i, u) ==
    /\ Continue(i, [u EXCEPT !.pc = "wCompleted", !.tempPath = Null], activePromises)
    /\ writes' = [writes EXCEPT ![i] = Append(@, "completed")]

\* Number.MAX_SAFE_INTEGER (2^53 - 1), a number above the size of any file;
\* written as the largest integer of the model checker
MAX_SAFE_INTEGER == 2147483647

\* getAvailableSpace(path): fs.statfs rejects for a path that does not exist
\* (and where the file system does not answer), and the catch returns
\* MAX_SAFE_INTEGER; bavail * bsize is written free
getAvailableSpace(pathExists, statfsWorks, free) ==
    IF pathExists /\ statfsWorks THEN free ELSE MAX_SAFE_INTEGER

\* getFileSize(filePath) of a file that exists
getFileSize(size) == size

\* the space check of writeFileAtomic(sourcePath, targetPath): the error it
\* throws, or "none"
checkSpace(sourceSize, targetExists, statfsWorks, free) ==
    IF getFileSize(sourceSize) > getAvailableSpace(targetExists, statfsWorks, free)
    THEN "Insufficient disk space" ELSE "none"

\* what writeFileAtomic can throw before its copy starts: the space check
\* throws only when statfs answers for the target path, that is when the
\* target exists; mkdirSync of ensureDirectory or getTempFilePath may throw
SpaceError(u) ==
    IF fileExists(u.outputPath) THEN "insufficient disk space" ELSE "mkdir error"

\* getAvailableSpace settles: the space check, ensureDirectory, the temp path,
\* and the start of copyFile(sourcePath, tempPath).
SpaceDone(i) ==
    LET u == units[i]
        tempPath == TempPath(i, u.attempt, "mp3.tmp") IN
    /\ i <= pulled
    /\ u.pc = "cSpace"
    /\ \/ /\ NoFault
          /\ tempFiles' = tempFiles \cup {tempPath}
          /\ tmpDisk' = Put(tmpDisk, tempPath, Partial)
          /\ Continue(i, [u EXCEPT !.pc = "cCopy", !.tempPath = tempPath],
                      activePromises)
          /\ UNCHANGED writes
       \/ /\ Fault
          /\ ToCatch(i, u, SpaceError(u))
          /\ UNCHANGED <<tempFiles, tmpDisk>>
    /\ UNCHANGED <<status, outDisk>>
    /\ UNCHANGED mainVars

\* copyFile(sourcePath, tempPath) settles.  On success renameSync runs in the
\* same step: it moves the temp file onto the target, fails with EXDEV when
\* the temp directory is on another file system (the fallback then starts
\* copyFile(tempPath, targetPath)), or fails otherwise.  A failed copyFile
\* tries to remove its destination.
CopyDone(i) ==
    LET u == units[i] IN
    /\ i <= pulled
    /\ u.pc = "cCopy"
    /\ \/ /\ ~crossDevice
          /\ NoFault
          /\ outDisk' = Put(outDisk, u.outputPath, Artifact(i, CopiedFile.complete))
          /\ tmpDisk' = Remove(tmpDisk, u.tempPath)
          /\ CallCompleted(i, u)
       \/ /\ crossDevice
          /\ NoFault
          /\ outDisk' = Put(outDisk, u.outputPath, Artifact(i, FALSE))
          /\ tmpDisk' = Put(tmpDisk, u.tempPath, Whole)
          /\ Continue(i, [u EXCEPT !.pc = "cXCopy"], activePromises)
          /\ UNCHANGED writes
       \/ /\ ~crossDevice
          /\ Fault
          /\ tmpDisk' = Put(tmpDisk, u.tempPath, Whole)
          /\ ToCatch(i, u, "rename error")
          /\ UNCHANGED outDisk
       \/ /\ Fault
          /\ \E removed \in BOOLEAN :
                tmpDisk' = IF removed THEN Remove(tmpDisk, u.tempPath) ELSE tmpDisk
          /\ ToCatch(i, u, "copy error")
          /\ UNCHANGED outDisk
    /\ UNCHANGED <<status, tempFiles>>
    /\ UNCHANGED mainVars

\* the fallback's copyFile(tempPath, targetPath) settles; on success
\* fs.unlink(tempPath) is started.
XCopyDone(i) ==
    LET u == units[i] IN
    /\ i <= pulled
    /\ u.pc = "cXCopy"
    /\ \/ /\ NoFault
          /\ outDisk' = Put(outDisk, u.outputPath, Artifact(i, TRUE))
          /\ Continue(i, [u EXCEPT !.pc = "cUnlink"], activePromises)
          /\ UNCHANGED writes
       \/ /\ Fault
          /\ \E removed \in BOOLEAN :
                outDisk' = IF removed THEN Remove(outDisk, u.outputPath) ELSE outDisk
          /\ ToCatch(i, u, "copy error")
    /\ UNCHANGED <<status, tmpDisk, tempFiles>>
    /\ UNCHANGED mainVars

\* the fallback's fs.unlink(tempPath) settles
UnlinkDone(i) ==
    LET u == units[i] IN
    /\ i <= pulled
    /\ u.pc = "cUnlink"
    /\ \/ /\ NoFault
          /\ tmpDisk' = Remove(tmpDisk, u.tempPath)
          /\ CallCompleted(i, u)
       \/ /\ Fault
          /\ ToCatch(i, u, "unlink error")
          /\ UNCHANGED tmpDisk
    /\ UNCHANGED <<status, outDisk, tempFiles>>
    /\ UNCHANGED mainVars

-----------------------------------------------------------------------------
(* the end of an attempt *)

\* await updateProcessingStatus(hash, 'completed') settles: the result is
\* returned through the finally block, or the catch block is entered.
StatusCompletedDone(i) ==
    LET u == units[i] IN
    /\ i <= pulled
    /\ u.pc = "wCompleted"
    /\ \/ /\ status' = [status EXCEPT ![i].status = "completed",
                                      ![i].outputPath = u.outputPath]
          /\ \E failed \in DeletionFailures(u) :
                /\ FaultsUsed(Cardinality(failed))
                /\ Cleanup(u, failed)
          /\ ReturnResult(i, u, activePromises)
          /\ UNCHANGED writes
       \/ /\ Fault
          /\ ToCatch(i, u, "store error")
          /\ UNCHANGED <<status, tmpDisk, tempFiles>>
    /\ UNCHANGED outDisk
    /\ UNCHANGED mainVars

\* await updateProcessingStatus(hash, 'failed', {error}) settles in the catch
\* block: the error is rethrown (or the store's error is thrown) through the
\* finally block to the retry wrapper.
StatusFailedDone(i) ==
    LET u == units[i] IN
    /\ i <= pulled
    /\ u.pc = "wFailed"
    /\ \/ /\ status' = [status EXCEPT ![i].status = "failed",
                                      ![i].error = u.lastError]
          /\ RetryCatch(i, EndAttempt(u), u.lastError, activePromises)
          /\ \E failed \in DeletionFailures(u) :
                /\ FaultsUsed(Cardinality(failed))
                /\ Cleanup(u, failed)
       \/ /\ RetryCatch(i, EndAttempt(u), "store error", activePromises)
          /\ UNCHANGED status
          /\ \E failed \in DeletionFailures(u) :
                /\ FaultsUsed(1 + Cardinality(failed))
                /\ Cleanup(u, failed)
    /\ UNCHANGED <<writes, outDisk>>
    /\ UNCHANGED mainVars

\* the backoff timer of the retry wrapper fires: attempt++ and the next
\* processMidiDocument starts
BackoffDone(i) ==
    LET u == units[i] IN
    /\ i <= pulled
    /\ u.pc = "backoff"
    /\ BeginAttempt(i, [u EXCEPT !.attempt = @ + 1], activePromises)
    /\ UNCHANGED <<status, outDisk, tmpDisk, tempFiles, faultsLeft>>
    /\ UNCHANGED mainVars

-----------------------------------------------------------------------------
(* processBatch *)

\* options.limit || null, and if (limit): 0 stands for no limit
NoLimit == 0

\* the number of records the cursor yields: cursor.limit(limit) when a limit is given
CursorSize ==
    IF limit # NoLimit /\ limit < Len(cursorDocs) THEN limit ELSE Len(cursorDocs)

\* Admit taking the record the cursor has yielded last once more
Admit_Readmitting ==
    LET i == IF pulled = 0 THEN 1 ELSE pulled
        active == activePromises \cup {i} IN
    /\ mainPc = "next"
    /\ pulled < CursorSize
    /\ pulled' = i
    /\ BeginAttempt(i, [IdleUnit EXCEPT !.attempt = 1], active)
    /\ IF MustWait(active)
       THEN mainPc' = "race" /\ raceSet' = active
       ELSE mainPc' = "next" /\ raceSet' = {}
    /\ UNCHANGED <<limit, cli, callArgs, callResult,
                   cursorDocs, concurrency, maxRetries, crossDevice, faultsLeft,
                   status, outDisk, tmpDisk, tempFiles>>

\* the cursor yields the next record: its unit is started (the synchronous
\* start of its first attempt runs at once), its promise is added to
\* activePromises, and the loop waits for Promise.race when the pool is full.
Admit ==
    LET i == pulled + 1
        active == activePromises \cup {i} IN
    /\ mainPc = "next"
    /\ pulled < CursorSize
    /\ pulled' = i
    /\ BeginAttempt(i, [IdleUnit EXCEPT !.attempt = 1], active)
    /\ IF MustWait(active)
       THEN mainPc' = "race" /\ raceSet' = active
       ELSE mainPc' = "next" /\ raceSet' = {}
    /\ UNCHANGED <<limit, cli, callArgs, callResult,
                   cursorDocs, concurrency, maxRetries, crossDevice, faultsLeft,
                   status, outDisk, tmpDisk, tempFiles>>

RaceDone_Rejecting ==
    /\ mainPc = "race"
    /\ \E i \in raceSet :
          /\ units[i].pc = "done"
          /\ mainPc' = IF units[i].outcome = "failure" THEN "rejected" ELSE "next"
    /\ raceSet' = {}
    /\ UNCHANGED <<limit, cli, callArgs, callResult,
                   cursorDocs, concurrency, maxRetries, crossDevice, faultsLeft,
                   pulled, activePromises, units, stats, status, writes,
                   outDisk, tmpDisk, tempFiles>>

\* Promise.race(activePromises) settles as soon as one of its promises has
RaceDone ==
    /\ mainPc = "race"
    /\ \E i \in raceSet : units[i].pc = "done"
    /\ mainPc' = "next"
    /\ raceSet' = {}
    /\ UNCHANGED <<limit, cli, callArgs, callResult,
                   cursorDocs, concurrency, maxRetries, crossDevice, faultsLeft,
                   pulled, activePromises, units, stats, status, writes,
                   outDisk, tmpDisk, tempFiles>>

\* the cursor is exhausted: the loop ends and Promise.all(activePromises) is awaited
Exhausted ==
    /\ mainPc = "next"
    /\ pulled = CursorSize
    /\ mainPc' = "all"
    /\ raceSet' = activePromises
    /\ UNCHANGED <<limit, cli, callArgs, callResult,
                   cursorDocs, concurrency, maxRetries, crossDevice, faultsLeft,
                   pulled, activePromises, units, stats, status, writes,
                   outDisk, tmpDisk, tempFiles>>

AllDone_NoWait ==
    /\ mainPc = "all"
    /\ mainPc' = "returned"
    /\ raceSet' = {}
    /\ UNCHANGED <<limit, cli, callArgs, callResult,
                   cursorDocs, concurrency, maxRetries, crossDevice, faultsLeft,
                   pulled, activePromises, units, stats, status, writes,
                   outDisk, tmpDisk, tempFiles>>

\* Promise.all settles when all its promises have; the summary is returned
AllDone ==
    /\ mainPc = "all"
    /\ \A i \in raceSet : units[i].pc = "done"
    /\ mainPc' = "returned"
    /\ raceSet' = {}
    /\ UNCHANGED <<limit, cli, callArgs, callResult,
                   cursorDocs, concurrency, maxRetries, crossDevice, faultsLeft,
                   pulled, activePromises, units, stats, status, writes,
                   outDisk, tmpDisk, tempFiles>>

\* the cursor fails while it is iterated: the outer catch rethrows
CursorFail ==
    /\ mainPc = "next"
    /\ Fault
    /\ mainPc' = "rejected"
    /\ raceSet' = {}
    /\ UNCHANGED <<limit, cli, callArgs, callResult,
                   cursorDocs, concurrency, maxRetries, crossDevice,
                   pulled, activePromises, units, stats, status, writes,
                   outDisk, tmpDisk, tempFiles>>

-----------------------------------------------------------------------------
(* The store's queries.  A filter is written [docs, status]: docs is the set   *)
(* of records (by their place in the collection) that satisfy its clauses on  *)
(* other fields than midiToAudioProcessing.status, status its clause on that  *)
(* field.                                                                     *)

NoClause == [op |-> "none", values |-> {}]

Eq(v) == [op |-> "eq", values |-> {v}]

Ne(v) == [op |-> "ne", values |-> {v}]

Nin(vs) == [op |-> "nin", values |-> vs]

\* the store's matching of a clause on the status field; a record without the
\* field ("unset") satisfies $ne and $nin and no equality
Matches(clause, st) ==
    CASE clause.op = "none" -> TRUE
      [] clause.op = "eq"   -> st \in clause.values
      [] clause.op = "ne"   -> st \notin clause.values
      [] clause.op = "nin"  -> st \notin clause.values

\* the sequence of the members of a set of numbers, in increasing order
InOrder(S) ==
    LET f[T \in SUBSET S] ==
            IF T = {} THEN <<>>
            ELSE LET m == CHOOSE x \in T : \A y \in T : x <= y
                 IN <<m>> \o f[T \ {m}]
    IN f[S]

\* collection.find(query): the records that satisfy the query, in natural order
find(docs, clause, statuses) ==
    InOrder({k \in docs : Matches(clause, statuses[k])})

\* the query getMidiDocumentsCursor builds from the filter
CursorQuery(filter, processing) ==
    LET q0 == filter.status
        q1 == IF processing.enableDuplicateCheck THEN Ne("completed") ELSE q0
        q2 == IF ~processing.retryFailed
              THEN IF q1 # NoClause
                   THEN IF q1 = Ne("completed") THEN Nin({"completed", "failed"}) ELSE q1
                   ELSE Ne("failed")
              ELSE q1
        statusExclusions ==
            (IF processing.enableDuplicateCheck THEN {"completed"} ELSE {})
            \cup (IF ~processing.retryFailed THEN {"failed"} ELSE {})
    IN IF statusExclusions # {} THEN Nin(statusExclusions) ELSE q2

getMidiDocumentsCursor(filter, processing, statuses) ==
    find(filter.docs, CursorQuery(filter, processing), statuses)

\* the query countMidiDocuments builds from the filter
CountQuery(filter, processing) ==
    IF processing.enableDuplicateCheck THEN Ne("completed") ELSE filter.status

\* collection.countDocuments(query)
countMidiDocuments(filter, processing, statuses) ==
    Cardinality({k \in filter.docs : Matches(CountQuery(filter, processing), statuses[k])})

\* config.processing: enableDuplicateCheck comes from the environment; no
\* retryFailed is defined, so it reads as undefined (falsy)
ProcessingConfig == [enableDuplicateCheck : BOOLEAN, retryFailed : {FALSE}]

Statuses == {"unset", "processing", "completed", "failed"}

StatusClauses == {NoClause, Eq("failed"), Eq("processing"), Ne("processing")}

QueryArgs ==
    [filter : [docs : SUBSET (1..MaxDocs) \ {{}}, status : StatusClauses],
     processing : ProcessingConfig,
     statuses : [1..MaxDocs -> Statuses]]

\* the cursor of getMidiDocumentsCursor(filter) is opened and read to its end
CallGetMidiDocumentsCursor ==
    /\ callArgs \in QueryArgs
    /\ callResult = Null
    /\ callResult' = <<getMidiDocumentsCursor(callArgs.filter, callArgs.processing,
                                              callArgs.statuses)>>
    /\ UNCHANGED <<cursorDocs, concurrency, maxRetries, crossDevice, faultsLeft, mainPc,
                   pulled, activePromises, raceSet, units, stats, status, writes,
                   outDisk, tmpDisk, tempFiles, limit, cli, callArgs>>

\* processBatch without a limit resolves stats.total by the count query and
\* opens the cursor, which is read to its end
CallCountAndCursor ==
    /\ callArgs \in QueryArgs
    /\ callResult = Null
    /\ callResult' = <<[total |-> countMidiDocuments(callArgs.filter, callArgs.processing,
                                                     callArgs.statuses),
                        yielded |-> getMidiDocumentsCursor(callArgs.filter,
                                                           callArgs.processing,
                                                           callArgs.statuses)]>>
    /\ UNCHANGED <<cursorDocs, concurrency, maxRetries, crossDevice, faultsLeft, mainPc,
                   pulled, activePromises, raceSet, units, stats, status, writes,
                   outDisk, tmpDisk, tempFiles, limit, cli, callArgs>>

-----------------------------------------------------------------------------
(* The command-line program: main and runCli.  cli.pc is the position of      *)
(* runCli, cli.queries lists the queries sent to the store, cli.exitCode is   *)
(* the exit status once cli.pc = "exited".                                    *)

\* cleanupAllTempFiles on the files of disk and the live set, rmSync throwing
\* for the paths of failed: a path leaves the set after its rmSync returned
sweep_DropsFailed(disk, live, failed) ==
    [disk |-> RemoveAll(disk, live \ failed), live |-> {}]

sweep(disk, live, failed) ==
    [disk |-> RemoveAll(disk, live \ failed), live |-> live \cap failed]

\* cleanupAllTempFiles; rmSync({force: true}) throws for at most
\* MaxUndeletable of the files that exist
cleanupAllTempFiles ==
    \E failed \in SUBSET (tempFiles \cap DOMAIN tmpDisk) :
        /\ Cardinality(failed) <= MaxUndeletable
        /\ tmpDisk' = sweep(tmpDisk, tempFiles, failed).disk
        /\ tempFiles' = sweep(tmpDisk, tempFiles, failed).live

\* The process ends with the given status: the exit handler sweeps the temp
\* files, and whatever was still running is gone.
Exit(code) ==
    /\ cli' = [cli EXCEPT !.pc = "exited", !.exitCode = code]
    /\ mainPc' = IF mainPc \in {"returned", "rejected"} THEN mainPc ELSE "killed"
    /\ units' = [i \in DOMAIN units |->
                    IF units[i].pc \in {"idle", "done"} THEN units[i]
                    ELSE [units[i] EXCEPT !.pc = "killed"]]
    /\ cleanupAllTempFiles
    /\ UNCHANGED <<cursorDocs, concurrency, maxRetries, crossDevice, pulled,
                   activePromises, raceSet, stats, status, writes, outDisk, limit,
                   callArgs, callResult>>

\* what a step of runCli before and after the batch leaves alone
batchVars == <<cursorDocs, concurrency, maxRetries, crossDevice, pulled, activePromises,
               raceSet, units, stats, status, writes, outDisk, tmpDisk, tempFiles,
               limit, callArgs, callResult>>

\* parsedOptions.dryRun: the configuration is logged and runCli returns
CliDryRun ==
    /\ cli.pc = "start"
    /\ cli.dryRun
    /\ cli' = [cli EXCEPT !.pc = "returned"]
    /\ UNCHANGED <<batchVars, mainPc, faultsLeft>>

\* parsedOptions.statsOnly: countMidiDocuments is called
CliStatsOnly ==
    /\ cli.pc = "start"
    /\ ~cli.dryRun
    /\ cli.statsOnly
    /\ cli' = [cli EXCEPT !.pc = "count", !.queries = Append(@, "count")]
    /\ UNCHANGED <<batchVars, mainPc, faultsLeft>>

\* the count of the statsOnly mode settles: it is logged and runCli returns,
\* or the catch of runCli exits with 1
CliCountDone ==
    /\ cli.pc = "count"
    /\ \/ /\ NoFault
          /\ cli' = [cli EXCEPT !.pc = "returned"]
          /\ UNCHANGED <<batchVars, mainPc>>
       \/ /\ Fault
          /\ Exit(1)

\* processBatch is called: stats.total = limit || await countMidiDocuments(filter)
CliProcessBatch_IgnoringModes ==
    /\ cli.pc = "start"
    /\ cli' = IF limit # NoLimit THEN [cli EXCEPT !.pc = "cursor"]
               ELSE [cli EXCEPT !.pc = "batchCount", !.queries = Append(@, "count")]
    /\ UNCHANGED <<batchVars, mainPc, faultsLeft>>

CliProcessBatch ==
    /\ cli.pc = "start"
    /\ ~cli.dryRun
    /\ ~cli.statsOnly
    /\ cli' = IF limit # NoLimit THEN [cli EXCEPT !.pc = "cursor"]
               ELSE [cli EXCEPT !.pc = "batchCount", !.queries = Append(@, "count")]
    /\ UNCHANGED <<batchVars, mainPc, faultsLeft>>

\* the count of processBatch settles: getMidiDocumentsCursor is called, or
\* processBatch rejects
CliBatchCountDone ==
    /\ cli.pc = "batchCount"
    /\ \/ /\ NoFault
          /\ cli' = [cli EXCEPT !.pc = "cursor"]
          /\ UNCHANGED mainPc
       \/ /\ Fault
          /\ cli' = [cli EXCEPT !.pc = "batch"]
          /\ mainPc' = "rejected"
    /\ UNCHANGED batchVars

\* the records of the collection a cursor yields
Yield(indexes) == [k \in 1..Len(indexes) |-> Collection[indexes[k]]]

\* the filters of the command line: clauses on other fields than the status
CliFilters ==
    {[docs |-> S, status |-> NoClause] :
        S \in {T \in SUBSET (1..Len(Collection)) : Cardinality(T) \in 1..MaxCliDocs}}

\* the configuration of config.js with the environment's defaults
DefaultProcessing == [enableDuplicateCheck |-> TRUE, retryFailed |-> FALSE]

\* a collection no run has touched
Fresh == [k \in 1..Len(Collection) |-> "unset"]

\* getMidiDocumentsCursor settles: the loop of processBatch starts
CliCursorOpened ==
    /\ cli.pc = "cursor"
    /\ cli' = [cli EXCEPT !.pc = "batch", !.queries = Append(@, "find")]
    /\ \E filter \in CliFilters :
          LET docs == Yield(getMidiDocumentsCursor(filter, DefaultProcessing, Fresh)) IN
          /\ cursorDocs' = docs
          /\ units' = [i \in 1..Len(docs) |-> IdleUnit]
          /\ status' = [i \in 1..Len(docs) |->
                           [status |-> "unset", outputPath |-> Null, error |-> "none"]]
          /\ writes' = [i \in 1..Len(docs) |-> <<>>]
    /\ mainPc' = "next"
    /\ UNCHANGED <<concurrency, maxRetries, crossDevice, faultsLeft, pulled,
                   activePromises, raceSet, stats, outDisk, tmpDisk, tempFiles,
                   limit, callArgs, callResult>>

\* processBatch returned its summary: exit with 1 when stats.failed > 0,
\* otherwise runCli returns
CliBatchReturned ==
    /\ cli.pc = "batch"
    /\ mainPc = "returned"
    /\ IF stats.failed > 0
       THEN Exit(1)
       ELSE /\ cli' = [cli EXCEPT !.pc = "returned"]
            /\ UNCHANGED <<batchVars, mainPc>>
    /\ UNCHANGED faultsLeft

\* processBatch rejected: the catch of runCli exits with 1
CliBatchRejected ==
    /\ cli.pc = "batch"
    /\ mainPc = "rejected"
    /\ Exit(1)
    /\ UNCHANGED faultsLeft

\* runCli returned: the finally of main runs and the process ends
CliEnd ==
    /\ cli.pc = "returned"
    /\ Exit(0)
    /\ UNCHANGED faultsLeft

\* SIGINT or SIGTERM arrives: the handler sweeps the temp files and exits with 0
Signal ==
    /\ cli.pc # "exited"
    /\ Exit(0)
    /\ UNCHANGED faultsLeft

-----------------------------------------------------------------------------
(* The extraction step of processMidiDocument (pipeline.js:17-87) on the      *)
(* bytes of the payload.  A buffer is a sequence of bytes, the payload string *)
(* a sequence of character codes.  A payload is written [type, content]:      *)
(*   "undefined"   no midifile.data                                           *)
(*   "string"      a string, content its character codes                      *)
(*   "Binary"      an object whose .buffer is a Buffer (content)              *)
(*   "Buffer"      a Buffer (content)                                         *)
(*   "hasValue"    an object with a value() method that returns content       *)
(*   "Uint8Array"  a typed array over an ArrayBuffer (content)                *)
(*   "object"      a plain object whose .buffer is an array of bytes          *)
(*   "other"       any other truthy value                                     *)

Payload(type, content) == [type |-> type, content |-> content]

Thrown(message) == [threw |-> TRUE, error |-> message, buffer |-> <<>>]

Extracted(buffer) == [threw |-> FALSE, error |-> "none", buffer |-> buffer]

\* 0x4D 0x54 0x68 0x64
MThd == <<77, 84, 104, 100>>

\* the negation of the test of pipeline.js:36-38
hasMidiHeader(midiBuffer) ==
    /\ Len(midiBuffer) >= 4
    /\ SubSeq(midiBuffer, 1, 4) = MThd

\* Buffer.from(data, 'latin1'): the low byte of every character code
fromLatin1(data) == [k \in 1..Len(data) |-> data[k] % 256]

\* the value of a base64 digit, of either alphabet; -1 for any other character
unbase64(c) ==
    IF c >= 65 /\ c <= 90 THEN c - 65
    ELSE IF c >= 97 /\ c <= 122 THEN c - 71
    ELSE IF c >= 48 /\ c <= 57 THEN c + 4
    ELSE IF c \in {43, 45} THEN 62
    ELSE IF c \in {47, 95} THEN 63
    ELSE -1

\* Buffer.from(data, 'base64'): decoding stops at the first '=', characters
\* outside the alphabet are skipped, an incomplete last group gives the bytes
\* its digits determine
fromBase64(data) ==
    LET stop == CHOOSE n \in 0..Len(data) :
                    /\ \A k \in 1..n : data[k] # 61
                    /\ n < Len(data) => data[n + 1] = 61
        digits == SelectSeq(SubSeq(data, 1, stop), LAMBDA c : unbase64(c) >= 0)
        d(k) == unbase64(digits[k])
        byte(j) ==
            LET g == 4 * (j \div 3) IN
            CASE j % 3 = 0 -> (d(g + 1) * 4 + d(g + 2) \div 16) % 256
              [] j % 3 = 1 -> ((d(g + 2) % 16) * 16 + d(g + 3) \div 4) % 256
              [] OTHER     -> ((d(g + 3) % 4) * 64 + d(g + 4)) % 256
    IN [k \in 1..((Len(digits) * 3) \div 4) |-> byte(k - 1)]

\* the value of a hex digit; -1 for any other character
unhex(c) ==
    IF c >= 48 /\ c <= 57 THEN c - 48
    ELSE IF c >= 97 /\ c <= 102 THEN c - 87
    ELSE IF c >= 65 /\ c <= 70 THEN c - 55
    ELSE -1

\* Buffer.from(data, 'hex'): pairs of digits up to the first pair that is not
\* one; a last single character is dropped
fromHex(data) ==
    LET isPair(k) == unhex(data[2 * k - 1]) >= 0 /\ unhex(data[2 * k]) >= 0
        n == CHOOSE m \in 0..(Len(data) \div 2) :
                 /\ \A k \in 1..m : isPair(k)
                 /\ m < Len(data) \div 2 => ~isPair(m + 1)
    IN [k \in 1..n |-> unhex(data[2 * k - 1]) * 16 + unhex(data[2 * k])]

\* fromString without its last fallback
fromString_NoHexFallback(data) ==
    IF hasMidiHeader(fromLatin1(data)) THEN fromLatin1(data)
    ELSE fromBase64(data)

\* the string branch, pipeline.js:31-51
fromString(data) ==
    IF hasMidiHeader(fromLatin1(data)) THEN fromLatin1(data)
    ELSE IF hasMidiHeader(fromBase64(data)) THEN fromBase64(data)
    ELSE fromHex(data)

PayloadTypes ==
    {"undefined", "string", "Binary", "Buffer", "hasValue", "Uint8Array", "object", "other"}

\* if (document.midifile?.data)
Truthy(data) ==
    /\ data.type # "undefined"
    /\ data.type = "string" => data.content # <<>>

\* pipeline.js:17-87: what processMidiDocument has, or throws, when it comes to
\* its first await
extractMidiBuffer(document) ==
    IF document.hash = NoHash THEN Thrown("Document missing midifile.hash")
    ELSE IF ~Truthy(document.data) THEN Thrown("Document missing midifile.data")
    ELSE IF document.data.type = "other"
         THEN Thrown("Document midifile.data in unknown format")
    ELSE LET midiBuffer == IF document.data.type = "string"
                           THEN fromString(document.data.content)
                           ELSE document.data.content
         IN IF Len(midiBuffer) = 0 THEN Thrown("Document missing midifile.data")
                                   ELSE Extracted(midiBuffer)

\* sequences of at most n elements of S
SeqUpTo(S, n) == UNION {[1..k -> S] : k \in 0..n}

\* the character code of a base64 digit
base64Char(v) ==
    IF v < 26 THEN 65 + v
    ELSE IF v < 52 THEN 71 + v
    ELSE IF v < 62 THEN v - 4
    ELSE IF v = 62 THEN 43 ELSE 47

\* buffer.toString('base64')
toBase64(buffer) ==
    LET n == Len(buffer)
        at(k) == IF k <= n THEN buffer[k] ELSE 0
        char(p) ==
            LET g == 3 * (p \div 4) IN
            CASE p % 4 = 0 -> base64Char(at(g + 1) \div 4)
              [] p % 4 = 1 -> base64Char((at(g + 1) % 4) * 16 + at(g + 2) \div 16)
              [] p % 4 = 2 -> IF g + 2 > n THEN 61
                              ELSE base64Char((at(g + 2) % 16) * 4 + at(g + 3) \div 64)
              [] OTHER     -> IF g + 3 > n THEN 61
                              ELSE base64Char(at(g + 3) % 64)
    IN [k \in 1..(4 * ((n + 2) \div 3)) |-> char(k - 1)]

\* the character code of a hex digit, in lower or upper case
hexChar(v, upper) == IF v < 10 THEN 48 + v ELSE (IF upper THEN 55 ELSE 87) + v

\* buffer.toString('hex'), and the same in upper case
toHex(buffer, upper) ==
    [k \in 1..(2 * Len(buffer)) |->
        hexChar(IF k % 2 = 1 THEN buffer[(k + 1) \div 2] \div 16
                             ELSE buffer[k \div 2] % 16, upper)]

\* the MIDI buffers: the header and what follows it
MidiBuffers == {MThd \o tail : tail \in SeqUpTo(TailBytes, MaxTail)}

\* the payloads that hold the buffer B: as a raw string, in base64, in hex, as
\* a wrapped binary and as a buffer
EncodingsOf(B) ==
    {Payload("string", B), Payload("string", toBase64(B)),
     Payload("string", toHex(B, FALSE)), Payload("string", toHex(B, TRUE)),
     Payload("Binary", B), Payload("Buffer", B)}

\* a call of the extraction step: the record, and the buffer its payload was
\* made from (<<>> when it was made from none)
ExtractArgs ==
    UNION {{[document |-> [hash |-> Hash("a", "1"), data |-> data], encodes |-> B] :
               data \in EncodingsOf(B)} : B \in MidiBuffers}
    \cup
    [document : [hash : {NoHash, Hash("a", "1")},
                 data : [type : PayloadTypes,
                         content : SeqUpTo(PayloadBytes, MaxPayloadLen)]],
     encodes : {<<>>}]

\* processMidiDocument(document) runs to its first await or to its throw
CallExtractMidiBuffer ==
    /\ callArgs \in ExtractArgs
    /\ callResult = Null
    /\ callResult' = <<extractMidiBuffer(callArgs.document)>>
    /\ UNCHANGED <<cursorDocs, concurrency, maxRetries, crossDevice, faultsLeft, mainPc,
                   pulled, activePromises, raceSet, units, stats, status, writes,
                   outDisk, tmpDisk, tempFiles, limit, cli, callArgs>>

\* strings about as long as the cap: a run of letters that ends at most
\* MaxShort characters before it, and a short string after it
LongStrings ==
    {[k \in 1..(MaxComponentLength - short) |-> "a"] \o tail :
        short \in 0..MaxShort, tail \in SeqUpTo(StrChars, MaxStrLen)}

\* the values sanitizePathComponent is called with: strings, undefined (which
\* is written as the empty string is) and values that are not strings
SanitizeArgs == [str : SeqUpTo(StrChars, MaxStrLen) \cup LongStrings \cup NonStringValues]

CallSanitizePathComponent ==
    /\ callArgs \in SanitizeArgs
    /\ callResult = Null
    /\ callResult' = <<sanitizePathComponent(callArgs.str)>>
    /\ UNCHANGED <<cursorDocs, concurrency, maxRetries, crossDevice, faultsLeft, mainPc,
                   pulled, activePromises, raceSet, units, stats, status, writes,
                   outDisk, tmpDisk, tempFiles, limit, cli, callArgs>>

\* a call of writeFileAtomic up to its space check: the size of the source,
\* whether the target path exists, whether statfs answers on the target's file
\* system, and the space free there
SpaceArgs ==
    [sourceSize : 0..MaxFileSize, targetExists : BOOLEAN, statfsWorks : BOOLEAN,
     free : 0..MaxFileSize]

CallCheckSpace ==
    /\ callArgs \in SpaceArgs
    /\ callResult = Null
    /\ callResult' = <<checkSpace(callArgs.sourceSize, callArgs.targetExists,
                                  callArgs.statfsWorks, callArgs.free)>>
    /\ UNCHANGED <<cursorDocs, concurrency, maxRetries, crossDevice, faultsLeft, mainPc,
                   pulled, activePromises, raceSet, units, stats, status, writes,
                   outDisk, tmpDisk, tempFiles, limit, cli, callArgs>>

-----------------------------------------------------------------------------
(* The options of the command line: commander's parsing of --limit and        *)
(* --concurrency, parseOptions and validateBatchOptions.  A JavaScript value  *)
(* is written [type, n]: a number n, NaN, null or undefined.                  *)

Num(n) == [type |-> "number", n |-> n]

NaN == [type |-> "NaN", n |-> 0]

JsNull == [type |-> "null", n |-> 0]

Undefined == [type |-> "undefined", n |-> 0]

\* a < b and a > b on numbers and NaN: a comparison with NaN is false
Less(a, b) == a.type = "number" /\ b.type = "number" /\ a.n < b.n

Greater(a, b) == Less(b, a)

\* a >= b
AtLeast(a, b) == a.type = "number" /\ b.type = "number" /\ a.n >= b.n

\* a || b on numbers, NaN, null and undefined
OrValue(a, b) == IF a.type = "number" /\ a.n # 0 THEN a ELSE b

\* the value of a digit: 0-9 and a-z
digit(c) ==
    CASE c = "0" -> 0 [] c = "1" -> 1 [] c = "2" -> 2 [] c = "8" -> 8
      [] c = "a" -> 10 [] OTHER -> 99

\* parseInt(string, radix) on a string without white space and without the
\* prefix 0x: a radix that is undefined or 0 stands for 10, another radix
\* outside 2..36 gives NaN; after an optional sign the longest prefix of
\* digits of the radix is read, and NaN is returned when it is empty
parseInt(string, radix) ==
    LET R == IF radix.type # "number" \/ radix.n = 0 THEN 10 ELSE radix.n
        negative == string # <<>> /\ string[1] = "-"
        body == IF negative THEN Tail(string) ELSE string
        n == CHOOSE m \in 0..Len(body) :
                 /\ \A k \in 1..m : digit(body[k]) < R
                 /\ m < Len(body) => digit(body[m + 1]) >= R
        value[k \in 0..n] == IF k = 0 THEN 0 ELSE value[k - 1] * R + digit(body[k])
    IN IF R < 2 \/ R > 36 \/ n = 0 THEN NaN
       ELSE Num(IF negative THEN 0 - value[n] ELSE value[n])

\* what commander hands to runCli for an option declared with the parser
\* parseInt and a default value: the default when the option is not given
\* (argument Null), else parseInt(argument, previous value), the previous
\* value being the default
optionValue(argument, default) ==
    IF argument = Null THEN default ELSE parseInt(argument[1], default)

\* validateBatchOptions(options): "accepted", or the message it throws
validateBatchOptions(options) ==
    IF options.limit # JsNull /\ (Less(options.limit, Num(1)) \/ options.limit.type # "number")
    THEN "Limit must be a positive integer or null"
    ELSE IF Less(options.concurrency, Num(1)) \/ Greater(options.concurrency, Num(20))
    THEN "Concurrency must be between 1 and 20"
    ELSE "accepted"

\* parseOptions(options) up to its call of validateBatchOptions (no --filter)
parseOptions(options) ==
    [limit |-> OrValue(options.limit, JsNull), concurrency |-> options.concurrency]

\* if (activePromises.size >= concurrency) of processBatch
reachedConcurrency(size, max) == AtLeast(Num(size), max)

\* the arguments of an option: Null when it is not given, else <<string>>
Arguments == {Null} \cup {<<string>> : string \in SeqUpTo(ArgChars, MaxArgLen)}

\* config.processing.concurrency = parseInt(process.env.CONCURRENCY) || 4:
\* any integer but 0
ConfiguredConcurrency == {-1, 1, 4, 10, 40}

CliArgs ==
    [limit : Arguments, concurrency : Arguments, configured : ConfiguredConcurrency]

\* runCli: program.opts() and parseOptions(options)
CallParseOptions ==
    /\ callArgs \in CliArgs
    /\ callResult = Null
    /\ LET options == [limit |-> optionValue(callArgs.limit, Undefined),
                       concurrency |-> optionValue(callArgs.concurrency,
                                                   Num(callArgs.configured))]
           batchOptions == parseOptions(options)
       IN callResult' = <<[options |-> batchOptions,
                           outcome |-> validateBatchOptions(batchOptions)]>>
    /\ UNCHANGED <<cursorDocs, concurrency, maxRetries, crossDevice, faultsLeft, mainPc,
                   pulled, activePromises, raceSet, units, stats, status, writes,
                   outDisk, tmpDisk, tempFiles, limit, cli, callArgs>>

-----------------------------------------------------------------------------
(* The metadata of a record as the encoder tags it, next to the metadata the  *)
(* output path is built from.                                                 *)

\* extractMetadata(document) of mp3Encoder.js: the artist, title and album of
\* the ID3 tags (year, genre and the comment are left out)
extractMetadata(document) ==
    [artist |-> Or(document.redacted.artist,
                Or(document.musicLLM.artist,
                Or(document.musicbrainz.top.artist,
                Or(document.musicbrainz.oldest.artist, UnknownArtist)))),
     title  |-> Or(document.redacted.title,
                Or(document.musicLLM.title,
                Or(document.musicbrainz.top.title,
                Or(document.musicbrainz.oldest.title,
                Or(IF document.fileName # Null THEN withoutMidSuffix(document.fileName)
                                                ELSE Null,
                   UnknownTitle))))),
     album  |-> Or(document.redacted.album,
                Or(document.musicLLM.album,
                Or(document.musicbrainz.top.album,
                Or(document.musicbrainz.oldest.album, UnknownAlbum))))]

\* the artist, album and title generateOutputPath sanitizes
pathMetadata(document) ==
    [artist |-> extractArtist(document),
     title  |-> extractTitle(document),
     album  |-> extractAlbum(document)]

\* the metadata sources of a record: musicLLM (L), musicbrainz.top (T),
\* musicbrainz.oldest (O) and redacted (R) with their artist (a), album (b),
\* title (t) and release (r), and midifile.fileName (f)
Sources == {"La", "Lb", "Lt", "Ta", "Tb", "Tt", "Oa", "Ob", "Ot",
            "Ra", "Rb", "Rr", "Rt", "f"}

\* the record whose sources are those of present, each holding its own name
MetadataDocument(present) ==
    LET value(source) == IF source \in present THEN <<source>> ELSE Null IN
    [hash |-> Hash("a", "1"),
     fileName |-> IF "f" \in present THEN <<"f", ".", "m", "i", "d">> ELSE Null,
     musicLLM |-> [artist |-> value("La"), album |-> value("Lb"), title |-> value("Lt")],
     musicbrainz |-> [top    |-> [artist |-> value("Ta"), album |-> value("Tb"),
                                  title |-> value("Tt")],
                      oldest |-> [artist |-> value("Oa"), album |-> value("Ob"),
                                  title |-> value("Ot")]],
     redacted |-> [artist |-> value("Ra"), album |-> value("Rb"),
                   release |-> value("Rr"), title |-> value("Rt")]]

MetadataArgs == [present : SUBSET Sources]

\* processMidiDocument on one record: encodeToMp3 tags the artifact with
\* extractMetadata(document), generateOutputPath resolves the path
CallExtractMetadata ==
    /\ callArgs \in MetadataArgs
    /\ callResult = Null
    /\ callResult' = <<[tags |-> extractMetadata(MetadataDocument(callArgs.present)),
                        path |-> pathMetadata(MetadataDocument(callArgs.present))]>>
    /\ UNCHANGED <<cursorDocs, concurrency, maxRetries, crossDevice, faultsLeft, mainPc,
                   pulled, activePromises, raceSet, units, stats, status, writes,
                   outDisk, tmpDisk, tempFiles, limit, cli, callArgs>>

-----------------------------------------------------------------------------
(* Specifications *)

\* the records a filter selects from the collection, in natural order
Select(S) ==
    LET f[k \in 0..Len(Collection)] ==
            IF k = 0 THEN <<>>
            ELSE IF k \in S THEN Append(f[k - 1], Collection[k]) ELSE f[k - 1]
    IN f[Len(Collection)]

Filters == {S \in SUBSET (1..Len(Collection)) : Cardinality(S) \in 1..MaxDocs}

InitRun ==
    /\ mainPc = "next"
    /\ pulled = 0
    /\ activePromises = {}
    /\ raceSet = {}
    /\ units = [i \in 1..Len(cursorDocs) |-> IdleUnit]
    /\ stats = NewStats
    /\ status = [i \in 1..Len(cursorDocs) |->
                    [status |-> "unset", outputPath |-> Null, error |-> "none"]]
    /\ writes = [i \in 1..Len(cursorDocs) |-> <<>>]
    /\ tmpDisk = <<>>
    /\ tempFiles = {}

\* the state of the command-line program while it waits for processBatch
InBatch == [pc |-> "batch", dryRun |-> FALSE, statsOnly |-> FALSE, exitCode |-> 0,
            queries |-> <<"find">>]

\* no call of a library function is looked at
NoCall == callArgs = Null /\ callResult = Null

\* a run of processBatch as the CLI starts it
Init ==
    /\ cursorDocs \in {Select(S) : S \in Filters}
    /\ concurrency \in 1..MaxConcurrency
    /\ maxRetries = DefaultMaxRetries
    /\ crossDevice \in BOOLEAN
    /\ faultsLeft = MaxFaults
    /\ outDisk \in {<<>>, (generateOutputPath(Collection[1]) :> OldFile)}
    /\ limit = NoLimit
    /\ cli = InBatch
    /\ NoCall
    /\ InitRun

Next ==
    \/ Admit
    \/ RaceDone
    \/ Exhausted
    \/ AllDone
    \/ CursorFail
    \/ \E i \in 1..MaxDocs :
          \/ StatusProcessingDone(i)
          \/ RenderCheckDone(i)
          \/ RenderDone(i)
          \/ AnalyzeDone(i)
          \/ NormalizeDone(i)
          \/ EncodeDone(i)
          \/ SpaceDone(i)
          \/ CopyDone(i)
          \/ XCopyDone(i)
          \/ UnlinkDone(i)
          \/ StatusCompletedDone(i)
          \/ StatusFailedDone(i)
          \/ BackoffDone(i)

Spec == Init /\ [][Next]_vars

\* The event loop runs every callback that is ready and every timer fires:
\* a run does not stop while a step of it is possible.
SpecLive == Init /\ [][Next]_vars /\ WF_vars(Next)

Reverse(seq) == [k \in 1..Len(seq) |-> seq[Len(seq) + 1 - k]]

\* a run of processBatch with options.limit given, over the collection in
\* either order
InitLimit ==
    /\ cursorDocs \in {Select(S) : S \in Filters} \cup {Reverse(Select(S)) : S \in Filters}
    /\ concurrency \in 1..MaxConcurrency
    /\ maxRetries = DefaultMaxRetries
    /\ crossDevice \in BOOLEAN
    /\ faultsLeft = MaxFaults
    /\ outDisk = <<>>
    /\ limit \in 1..MaxLimit
    /\ cli = InBatch
    /\ NoCall
    /\ InitRun

SpecLimit == InitLimit /\ [][Next]_vars

\* no run: the state in which a function of the library is called
InitIdle ==
    /\ cursorDocs = <<>>
    /\ concurrency = 1
    /\ maxRetries = DefaultMaxRetries
    /\ crossDevice = FALSE
    /\ faultsLeft = 0
    /\ outDisk = <<>>
    /\ limit = NoLimit
    /\ cli = InBatch
    /\ InitRun

InitQuery ==
    /\ callArgs \in QueryArgs
    /\ callResult = Null
    /\ InitIdle

SpecQuery == InitQuery /\ [][CallGetMidiDocumentsCursor]_vars

SpecTotal == InitQuery /\ [][CallCountAndCursor]_vars

InitExtract ==
    /\ callArgs \in ExtractArgs
    /\ callResult = Null
    /\ InitIdle

SpecExtract == InitExtract /\ [][CallExtractMidiBuffer]_vars

InitSanitize ==
    /\ callArgs \in SanitizeArgs
    /\ callResult = Null
    /\ InitIdle

SpecSanitize == InitSanitize /\ [][CallSanitizePathComponent]_vars

InitSpace ==
    /\ callArgs \in SpaceArgs
    /\ callResult = Null
    /\ InitIdle

SpecSpace == InitSpace /\ [][CallCheckSpace]_vars

InitOptions ==
    /\ callArgs \in CliArgs
    /\ callResult = Null
    /\ InitIdle

SpecOptions == InitOptions /\ [][CallParseOptions]_vars

InitMetadata ==
    /\ callArgs \in MetadataArgs
    /\ callResult = Null
    /\ InitIdle

SpecMetadata == InitMetadata /\ [][CallExtractMetadata]_vars

\* the program as it is started from the command line
InitCli ==
    /\ cli \in [pc : {"start"}, dryRun : BOOLEAN, statsOnly : BOOLEAN, exitCode : {0},
                 queries : {<<>>}]
    /\ limit \in {NoLimit, 1}
    /\ concurrency \in 1..MaxConcurrency
    /\ maxRetries = DefaultMaxRetries
    /\ crossDevice \in BOOLEAN
    /\ faultsLeft = MaxFaults
    /\ outDisk = <<>>
    /\ cursorDocs = <<>>
    /\ mainPc = "idle"
    /\ pulled = 0
    /\ activePromises = {}
    /\ raceSet = {}
    /\ units = <<>>
    /\ stats = NewStats
    /\ status = <<>>
    /\ writes = <<>>
    /\ tmpDisk = <<>>
    /\ tempFiles = {}
    /\ NoCall

NextCli ==
    \/ CliDryRun
    \/ CliStatsOnly
    \/ CliCountDone
    \/ CliProcessBatch
    \/ CliBatchCountDone
    \/ CliCursorOpened
    \/ CliBatchReturned
    \/ CliBatchRejected
    \/ CliEnd
    \/ Signal
    \/ Next

SpecCli == InitCli /\ [][NextCli]_vars

\* one record through processMidiDocumentWithRetry(document, maxRetries)
InitRetry ==
    /\ cursorDocs \in {<<Collection[k]>> : k \in 1..Len(Collection)}
    /\ concurrency = 1
    /\ maxRetries \in 0..MaxRetriesBound
    /\ crossDevice \in BOOLEAN
    /\ faultsLeft = UnitFaults
    /\ outDisk \in {<<>>, (generateOutputPath(Collection[1]) :> OldFile)}
    /\ limit = NoLimit
    /\ cli = InBatch
    /\ NoCall
    /\ InitRun

SpecRetry == InitRetry /\ [][Next]_vars


-----------------------------------------------------------------------------
(* Properties *)

Launched == 1..pulled

\* the units launched and not yet settled (running, or waiting in a backoff)
Outstanding == {i \in Launched : units[i].pc # "done"}

Settled(i) == units[i].pc = "done"

\* C1: in every reachable state at most `concurrency` units are launched and
\* not yet settled; a unit waiting in the backoff between two attempts counts
\* as not settled, so it keeps its slot.
C1_BoundedConcurrency == Cardinality(Outstanding) <= concurrency

\* the pool is full, one of its units is in a backoff wait, and the loop waits
\* with a record still to be pulled
C1_Witness ==
    /\ Cardinality(Outstanding) = concurrency
    /\ concurrency = MaxConcurrency
    /\ \E i \in Outstanding : units[i].pc = "backoff"
    /\ mainPc = "race"
    /\ pulled < Len(cursorDocs)

\* C2: when processBatch has returned, the cursor is exhausted, every unit has
\* settled, and processed = records pulled = successful + failed.
C2_ReturnAfterAll ==
    mainPc = "returned" =>
        /\ pulled = Len(cursorDocs)
        /\ \A i \in Launched : Settled(i)
        /\ Outstanding = {}
        /\ stats.processed = pulled
        /\ stats.processed = stats.successful + stats.failed

\* a batch of MaxDocs records has returned with successes and failures
C2_Witness ==
    /\ mainPc = "returned"
    /\ pulled = MaxDocs
    /\ stats.successful > 0
    /\ stats.failed > 0

\* the error recorded in the aggregate for unit i
Recorded(i) == {e \in {stats.errors[k] : k \in 1..Len(stats.errors)} :
                    e.hash = HashOrUnknown(i)}

\* C3: when processBatch has returned, every pulled record has a persisted
\* terminal status that matches how it was counted: completed iff counted
\* successful, failed (with the error message) iff counted failed.
C3_TerminalStatusMatchesCount ==
    mainPc = "returned" =>
        \A i \in Launched :
            /\ units[i].outcome = "success" <=> status[i].status = "completed"
            /\ units[i].outcome = "failure" <=>
                   /\ status[i].status = "failed"
                   /\ status[i].error = units[i].lastError

\* a step that rejects processBatch is the failure of the cursor, and changes
\* no unit and no count
C4_RejectOnlyByCursor ==
    (mainPc' = "rejected" /\ mainPc # "rejected") =>
        /\ mainPc = "next"
        /\ units' = units
        /\ stats' = stats

C4_LaterRecordsProcessed ==
    mainPc = "returned" =>
        \A i \in 1..Len(cursorDocs) :
            units[i].outcome = "failure" =>
                \A j \in (i + 1)..Len(cursorDocs) : j \in Launched /\ Settled(j)

\* C4: processBatch is rejected only by a failure of the cursor, never by the
\* step of a unit, and when it returns every record after a failed one has
\* been admitted and processed.
C4_FailureDoesNotAbort ==
    [][C4_RejectOnlyByCursor]_vars /\ []C4_LaterRecordsProcessed

\* a record failed after all retries and a later record completed
C4_Witness ==
    /\ mainPc = "returned"
    /\ \E i, j \in Launched :
          /\ i < j
          /\ units[i].outcome = "failure"
          /\ Len(units[i].errors) = maxRetries + 1
          /\ units[j].outcome = "success"
          /\ status[j].status = "completed"


\* the errors of the transform stages
StageErrors == {"render error", "silent", "normalize error", "encode error"}

Repeat(pattern, n) == [k \in 1..(n * Len(pattern)) |-> pattern[((k - 1) % Len(pattern)) + 1]]

\* the attempts of every unit are within 1..maxRetries + 1; a success ends the
\* unit in the attempt after its failed ones; a failure ends it after exactly
\* maxRetries + 1 failed attempts with the error of the last one recorded
C5_AttemptsBounded ==
    \A i \in Launched :
        LET u == units[i] IN
        /\ u.attempt \in 1..(maxRetries + 1)
        /\ Len(u.errors) <= u.attempt
        /\ u.outcome = "success" => Settled(i) /\ Len(u.errors) = u.attempt - 1
        /\ u.outcome = "failure" =>
              /\ Settled(i)
              /\ u.attempt = maxRetries + 1
              /\ Len(u.errors) = maxRetries + 1
              /\ Recorded(i) = {[hash |-> HashOrUnknown(i), error |-> u.errors[Len(u.errors)]]}

\* a settled unit takes no further step and writes no further status
C5_SettledStaysSettled ==
    \A i \in Launched : Settled(i) => units'[i] = units[i] /\ writes'[i] = writes[i]

\* C5: processMidiDocument is run at most maxRetries + 1 times; a settled unit
\* starts nothing more; a successful unit succeeded in the attempt that
\* followed its failed ones; a failed unit has run exactly maxRetries + 1
\* attempts and throws the error of the last one.
C5_RetryBound == []C5_AttemptsBounded /\ [][C5_SettledStaysSettled]_vars

\* every attempt failed with maxRetries = MaxRetriesBound, the last error
\* differing from the first
C5_Witness ==
    /\ maxRetries = MaxRetriesBound
    /\ units[1].outcome = "failure"
    /\ Len(units[1].errors) = maxRetries + 1
    /\ units[1].errors[1] # units[1].errors[maxRetries + 1]

\* a unit that succeeded in its last attempt after failures
C5_WitnessSuccess ==
    /\ maxRetries = MaxRetriesBound
    /\ units[1].outcome = "success"
    /\ units[1].attempt = maxRetries + 1

\* unit i has settled after failing in a transform stage in every attempt
FailedInStagesOnly(i) ==
    /\ units[i].outcome = "failure"
    /\ \A k \in 1..Len(units[i].errors) : units[i].errors[k] \in StageErrors

CleanedAttempts(i) ==
    {a \in 1..units[i].attempt :
        a < units[i].attempt \/ units[i].pc \in {"backoff", "done"}}

TempKinds == {"mid", "wav", "norm", "mp3", "mp3.tmp"}

\* C7: after the cleanup step of an attempt no temp file allocated in that
\* attempt exists on disk.
C7_NoTempAfterCleanup ==
    \A i \in Launched : \A a \in CleanedAttempts(i) : \A k \in TempKinds :
        TempPath(i, a, k) \notin DOMAIN tmpDisk

C8_PartialOnlyCrossDevice ==
    \A p \in DOMAIN outDisk : ~outDisk[p].complete => crossDevice

\* on one file system every change of a target path is the rename of a unit
\* and puts the complete copy of its source there
C8_RenameIsWhole ==
    ~crossDevice =>
        \A p \in DOMAIN outDisk' :
            (p \notin DOMAIN outDisk \/ outDisk'[p] # outDisk[p]) =>
                \E i \in Launched :
                    /\ units[i].pc = "cCopy"
                    /\ units[i].outputPath = p
                    /\ outDisk'[p] = Artifact(i, TRUE)

C9_UniqueArtifacts ==
    \A i, j \in Launched :
        (/\ i # j
         /\ Doc(i).hash # Doc(j).hash
         /\ status[i].status = "completed"
         /\ status[j].status = "completed") =>
            /\ status[i].outputPath # status[j].outputPath
            /\ status[i].outputPath \in DOMAIN outDisk
            /\ outDisk[status[i].outputPath].of = Doc(i).hash

\* path p is path r with '_' and the first ShortHashLen characters of h put
\* before the extension
IsDisambiguated(p, r, h) ==
    LET n == Len(r) - Len(ext) IN
    /\ Len(p) = Len(r) + 1 + ShortHashLen
    /\ \A k \in 1..n : p[k] = r[k]
    /\ p[n + 1] = "_"
    /\ \A k \in 1..ShortHashLen : p[n + 1 + k] = h[k]
    /\ \A k \in 1..Len(ext) : p[n + 1 + ShortHashLen + k] = ext[k]

\* path p holds the same file, or none, on both disks
SameFile(p, disk1, disk2) ==
    /\ p \in DOMAIN disk1 <=> p \in DOMAIN disk2
    /\ p \in DOMAIN disk1 => disk1[p] = disk2[p]

\* a unit that found its resolved path existing commits to the disambiguated
\* path and, when it succeeds, is completed there with its own file
C10_CompletesAtDisambiguated ==
    \A i \in Launched :
        units[i].collided =>
            /\ IsDisambiguated(units[i].outputPath, generateOutputPath(Doc(i)), Doc(i).hash)
            /\ units[i].outcome = "success" =>
                  /\ status[i].status = "completed"
                  /\ status[i].outputPath = units[i].outputPath
                  /\ outDisk[units[i].outputPath].of = Doc(i).hash

\* no step of such a unit changes the file at its resolved path
C10_ResolvedPathUntouched ==
    \A i \in Launched :
        (units[i].collided /\ units'[i] # units[i]) =>
            SameFile(generateOutputPath(Doc(i)), outDisk, outDisk')

\* C10: a unit that found its resolved output path existing commits to, and
\* completes at, the path with '_' and the first eight characters of its hash
\* before ".mp3", and no step of it changes the file at the resolved path.
C10_Disambiguation ==
    []C10_CompletesAtDisambiguated /\ [][C10_ResolvedPathUntouched]_vars

\* the record completed at the disambiguated path beside the old file
C10_Witness ==
    \E i \in Launched :
        /\ units[i].collided
        /\ units[i].outcome = "success"
        /\ outDisk[generateOutputPath(Doc(i))] = OldFile
        /\ status[i].outputPath # generateOutputPath(Doc(i))


\* C11: a record whose persisted status is completed has a complete output
\* file at the output path recorded with that status.
C11_CompletedAfterCommit ==
    \A i \in Launched :
        status[i].status = "completed" =>
            /\ status[i].outputPath \in DOMAIN outDisk
            /\ outDisk[status[i].outputPath].complete


Min(a, b) == IF a < b THEN a ELSE b

\* the pulled records whose persisted status is processing
InProcessing == {i \in Launched : status[i].status = "processing"}

\* processBatch never pulls more than limit records, nor more than match, and
\* has pulled exactly the smaller of the two when it returns
C12_PullsUpToLimit ==
    /\ limit >= 1 => pulled <= Min(limit, Len(cursorDocs))
    /\ (limit >= 1 /\ mainPc = "returned") => pulled = Min(limit, Len(cursorDocs))

\* C12 as claimed: with a limit L >= 1, exactly min(L, matching records) are
\* pulled, never more than L, and at most `concurrency` of them have the
\* persisted status processing at any time.
C12_LimitAndProcessingBound ==
    /\ C12_PullsUpToLimit
    /\ Cardinality(InProcessing) <= concurrency


\* the status values the cursor's query is to exclude
Excluded(processing) ==
    (IF processing.enableDuplicateCheck THEN {"completed"} ELSE {})
    \cup (IF processing.retryFailed THEN {} ELSE {"failed"})

\* the records that satisfy the caller's filter
Satisfying(filter, statuses) ==
    {k \in filter.docs : Matches(filter.status, statuses[k])}

\* C13: the cursor yields, in natural order, exactly the records that match
\* the filter and whose status is not excluded: completed is excluded when the
\* duplicate check is enabled, failed unless retrying failed records is
\* enabled, processing never.
C13_CursorYieldsMatchingNotExcluded ==
    callResult # Null =>
        callResult[1] =
            InOrder({k \in Satisfying(callArgs.filter, callArgs.statuses) :
                        callArgs.statuses[k] \notin Excluded(callArgs.processing)})

\* the same for the filters without a clause on the status field
C13_WithoutStatusClause ==
    (callResult # Null /\ callArgs.filter.status = NoClause) =>
        callResult[1] =
            InOrder({k \in callArgs.filter.docs :
                        callArgs.statuses[k] \notin Excluded(callArgs.processing)})


\* C14: when the process has exited, its exit status is non-zero if a record
\* of the run ended failed after its retries, and it is zero only if every
\* pulled record was processed successfully.
C14_ExitStatus ==
    cli.pc = "exited" =>
        /\ (\E i \in Launched : units[i].outcome = "failure") => cli.exitCode # 0
        /\ cli.exitCode = 0 => \A i \in Launched : units[i].outcome = "success"


\* C15: the aggregate processBatch returns holds exactly one (hash, error
\* message) entry for each record counted as failed.
C15_AggregateListsFailures ==
    mainPc = "returned" =>
        LET summary == getSummary(stats) IN
        /\ "errors" \in DOMAIN summary => Len(summary.errors) = summary.failed
        /\ \A i \in Launched :
              units[i].outcome = "failure" =>
                  /\ "errors" \in DOMAIN summary
                  /\ Cardinality({k \in 1..Len(summary.errors) :
                                     summary.errors[k] = [hash |-> HashOrUnknown(i),
                                                          error |-> units[i].lastError]}) = 1

\* the same of the statistics processBatch keeps while it runs
C15_StatsListFailures ==
    /\ Len(stats.errors) = stats.failed
    /\ \A i \in Launched :
          units[i].outcome = "failure" =>
              Cardinality({k \in 1..Len(stats.errors) :
                              stats.errors[k] = [hash |-> HashOrUnknown(i),
                                                 error |-> units[i].lastError]}) = 1


\* processBatch has settled, by returning or by the failure of the cursor, and
\* every unit it launched has settled and left the pool
Terminated ==
    /\ mainPc \in {"returned", "rejected"}
    /\ \A i \in Launched : units[i].pc = "done"
    /\ activePromises = {}

\* C16: a run of processBatch eventually settles, by returning unless the
\* cursor failed, and every unit it launched eventually settles and frees its
\* slot; so no wait for a free slot lasts forever.
C16_RunTerminates == <>Terminated

\* the loop waits for a slot with every unit of the pool in a backoff wait
C16_Witness ==
    /\ mainPc = "race"
    /\ pulled < Len(cursorDocs)
    /\ Cardinality(raceSet) = MaxConcurrency
    /\ \A i \in raceSet : units[i].pc = "backoff"


\* the call was made on a payload that holds the buffer B in a valid encoding
ExtractedFromEncoding ==
    /\ callResult # Null
    /\ callArgs.encodes # <<>>
    /\ callArgs.document.data \in EncodingsOf(callArgs.encodes)

\* C17: for every MIDI buffer B, which begins with 'MThd', and every valid
\* encoding of B as the payload (raw string, base64, hex, wrapped binary,
\* buffer), the extraction step yields a buffer identical to B.
C17_ExtractionRecoversBuffer ==
    ExtractedFromEncoding => callResult[1] = Extracted(callArgs.encodes)

\* a buffer with bytes after the header was recovered from its hex string,
\* the last of the decodings tried
C17_Witness ==
    /\ ExtractedFromEncoding
    /\ Len(callArgs.encodes) > Len(MThd)
    /\ callArgs.document.data = Payload("string", toHex(callArgs.encodes, FALSE))
    /\ callResult[1] = Extracted(callArgs.encodes)

\* C18: extraction throws when the record has no hash, no payload, or no
\* decoding of the payload begins with 'MThd': a buffer that the step hands on
\* (to the status write and the render stage) begins with 'MThd'.
C18_HandedBufferHasHeader ==
    callResult # Null =>
        \/ callResult[1].threw
        \/ hasMidiHeader(callResult[1].buffer)

\* The part that holds: a record without hash or without payload is refused.
C18_MissingHashOrPayloadThrows ==
    (/\ callResult # Null
     /\ \/ callArgs.document.hash = NoHash
        \/ ~Truthy(callArgs.document.data)) => callResult[1].threw


\* the characters a path component must not hold: < > : " / \ | ? * and the
\* control characters (of which the model has tab, newline, return, form feed)
ForbiddenChars == {"<", ">", ":", "\"", "/", "\\", "|", "?", "*", "\t", "\n", "\r", "\f"}

\* nothing of the input is left by sanitizing: it is no string, or it holds
\* only forbidden characters, white space and dots
LeavesNothing(str) ==
    \/ str \in NonStringValues
    \/ \A k \in 1..Len(str) : str[k] \in ForbiddenChars \cup {" ", "."}

\* C19: for every input (a string, the empty string, a value that is no
\* string) sanitizePathComponent returns a non-empty string that holds none of
\* < > : " / \ | ? * and no control character; when sanitizing leaves nothing
\* the result is the placeholder 'Unknown'.
C19_SanitizedComponent ==
    callResult # Null =>
        LET result == callResult[1] IN
        /\ result # <<>>
        /\ result \notin NonStringValues
        /\ \A k \in 1..Len(result) : result[k] \notin ForbiddenChars
        /\ LeavesNothing(callArgs.str) => result = Unknown

\* a string with a separator, a control character and a letter was sanitized
\* to what is left of it
C19_Witness ==
    /\ callResult # Null
    /\ callArgs.str \notin NonStringValues
    /\ \E j, k, l \in 1..Len(callArgs.str) :
          /\ callArgs.str[j] = "/"
          /\ callArgs.str[k] = "\t"
          /\ callArgs.str[l] = "a"
    /\ callResult[1] # Unknown


\* no unit was launched, no record status written and no output file changed
NothingProcessed ==
    /\ pulled = 0
    /\ units = <<>>
    /\ activePromises = {}
    /\ status = <<>>
    /\ writes = <<>>
    /\ outDisk = <<>>

\* C20: in dryRun mode the program sends no query (it opens no cursor),
\* launches no unit, writes no status and no output file; in statsOnly mode
\* the count query is the only one it sends and likewise no unit is launched
\* and no record status or file is changed.
C20_ModesLeaveStoreAndFilesAlone ==
    /\ cli.dryRun => cli.queries = <<>> /\ NothingProcessed
    /\ (cli.statsOnly /\ ~cli.dryRun) =>
          /\ cli.queries \in {<<>>, <<"count">>}
          /\ NothingProcessed

\* a statsOnly run has ended after its one count query
C20_Witness ==
    /\ cli.statsOnly
    /\ ~cli.dryRun
    /\ cli.pc = "exited"
    /\ cli.exitCode = 0
    /\ cli.queries = <<"count">>
    /\ NothingProcessed


\* the step in which the process ends
ProcessEnds == cli.pc # "exited" /\ cli'.pc = "exited"

OneUnitPerRecord(i) ==
    /\ (units[i].pc = "idle" /\ units'[i] # units[i]) => pulled = i - 1 /\ pulled' = i
    /\ units[i].pc # "idle" => units'[i].pc # "idle"
    /\ units'[i].attempt # units[i].attempt =>
          /\ units'[i].attempt = units[i].attempt + 1
          /\ units[i].pc \in {"idle", "backoff"}
    /\ (/\ Len(writes'[i]) > Len(writes[i])
        /\ writes'[i][Len(writes'[i])] = "processing") =>
          units'[i].attempt = units[i].attempt + 1

\* C22: within one run every record the cursor yields is admitted exactly
\* once, in the step that pulls it; no record is admitted again; the attempts
\* of a record follow one another inside its one unit; so no record is
\* processed by two units at the same time.
C22_AdmittedOnce ==
    [][/\ pulled' \in {pulled, pulled + 1}
       /\ pulled' = pulled + 1 => units[pulled'].pc = "idle"
       /\ \A i \in DOMAIN units : OneUnitPerRecord(i)
       /\ \A i, j \in DOMAIN units' : i # j => Doc(i) # Doc(j)]_vars

\* a record is in its second attempt while the unit of another record runs
C22_Witness ==
    \E i, j \in activePromises :
        /\ i # j
        /\ units[i].attempt = 2
        /\ units[i].pc \notin {"idle", "backoff", "done"}
        /\ units[j].pc \notin {"idle", "backoff", "done"}


\* the positions of a unit inside the try block of processMidiDocument: a
\* transform, the commit or the write of the final status is awaited
InTryBlock ==
    {"rCheck", "rSpawn", "nAnalyze", "nApply", "encode", "cSpace", "cCopy", "cXCopy",
     "cUnlink", "wCompleted", "wFailed"}

\* the temp paths of the attempt the unit is in
TempsOfAttempt(i) == {TempPath(i, units[i].attempt, kind) : kind \in {"wav", "mid", "norm", "mp3"}}

\* C23: in every attempt status 'processing' is persisted before the render
\* transform is invoked; a 'completed' or 'failed' status is written only in
\* an attempt that has persisted 'processing'; and when the write of
\* 'processing' fails, the attempt invokes no transform and allocates no temp
\* file.
C23_ProcessingFirst ==
    /\ [](\A i \in DOMAIN units :
            /\ units[i].pc \in InTryBlock => status[i].status = "processing"
            /\ units[i].pc = "wProcessing" =>
                  /\ AttemptTemps(units[i]) = {}
                  /\ tempFiles \cap TempsOfAttempt(i) = {})
    /\ [][\A i \in DOMAIN units :
            /\ (/\ Len(writes'[i]) > Len(writes[i])
                /\ writes'[i][Len(writes'[i])] \in {"completed", "failed"}) =>
                  /\ status[i].status = "processing"
                  /\ units[i].pc \in InTryBlock
            /\ (/\ units[i].pc = "wProcessing"
                /\ units'[i].pc # "wProcessing"
                /\ status'[i].status # "processing") =>
                  /\ units'[i].pc \in {"backoff", "done"}
                  /\ tempFiles' = tempFiles
                  /\ tmpDisk' = tmpDisk
                  /\ writes' = writes]_vars

\* the write of 'processing' failed in the first attempt: the unit waits for
\* its second attempt, nothing is persisted and no temp file is listed
C23_Witness ==
    \E i \in DOMAIN units :
        /\ units[i].pc = "backoff"
        /\ units[i].attempt = 1
        /\ units[i].lastError = "store error"
        /\ status[i].status = "unset"
        /\ writes[i] = <<"processing">>
        /\ tempFiles = {}


\* the stage a unit is in: 1 render, 2 normalize, 3 encode, 4 commit, 5 the
\* write of 'completed', 6 the failed handling, 0 outside the try block
StageOf(pc) ==
    CASE pc \in {"rCheck", "rSpawn"} -> 1
      [] pc \in {"nAnalyze", "nApply"} -> 2
      [] pc = "encode" -> 3
      [] pc \in {"cSpace", "cCopy", "cXCopy", "cUnlink"} -> 4
      [] pc = "wCompleted" -> 5
      [] pc = "wFailed" -> 6
      [] OTHER -> 0

\* the file at path is completely written
IsWhole(disk, path) == path \in DOMAIN disk /\ disk[path].complete

\* C24: within one attempt the stages run in the order render, normalize,
\* encode, commit, write of 'completed'; a stage starts only after the stage
\* before it succeeded (its output is completely written); when a stage
\* fails no later stage is invoked and the attempt goes to the failed
\* handling, after which it ends.
C24_StageOrder ==
    [][\A i \in DOMAIN units :
          LET from == StageOf(units[i].pc)
              to == StageOf(units'[i].pc) IN
          /\ (from = 0 /\ to # 0) => units[i].pc = "wProcessing" /\ to = 1
          /\ (from \in 1..4) => to \in {from, from + 1, 6}
          /\ from = 5 => to \in {5, 6, 0}
          /\ from = 6 => to = 0 /\ units'[i].pc \in {"backoff", "done"}
          /\ (from = 1 /\ to = 2) => IsWhole(tmpDisk', units'[i].wavPath)
          /\ (from = 2 /\ to = 3) => IsWhole(tmpDisk', units'[i].normalizedWavPath)
          /\ (from = 3 /\ to = 4) => IsWhole(tmpDisk', units'[i].tempMp3Path)
          /\ (from = 4 /\ to = 5) => IsWhole(outDisk', units'[i].outputPath)
          /\ (from = 5 /\ to = 0) =>
                units'[i].pc = "done" /\ status'[i].status = "completed"]_vars

\* the encode stage failed in the second attempt, after render and normalize
\* had succeeded: the attempt is in its failed handling and nothing was
\* committed
C24_Witness ==
    \E i \in DOMAIN units :
        /\ units[i].pc = "wFailed"
        /\ units[i].attempt = 2
        /\ units[i].lastError = "encode error"
        /\ IsWhole(tmpDisk, units[i].normalizedWavPath)
        /\ units[i].outputPath = Null


\* every attempt of the i-th record ended with a rejected status update: the
\* store was out of reach for as long as the unit ran
FailedByStore(i) ==
    /\ units[i].pc = "done"
    /\ units[i].outcome = "failure"
    /\ \A k \in 1..Len(units[i].errors) : units[i].errors[k] = "store error"

\* C25: a batch-level store failure aborts the run; in particular, when the
\* status updates of a record fail because the store is out of reach,
\* processBatch rejects with that error instead of returning its stats.
C25_StoreFailureAborts ==
    (\E i \in Launched : FailedByStore(i)) => mainPc # "returned"

\* The part that holds: once the count query or the cursor has failed,
\* processBatch has rejected and no further record is admitted.
C25_QueryFailureAborts ==
    [][mainPc = "rejected" => (pulled' = pulled /\ mainPc' = "rejected")]_vars


\* C26: writeFileAtomic fails with the insufficient-disk-space error whenever
\* the source is larger than the space free on the file system that will hold
\* the target, also when the target does not exist yet; only when the free
\* space cannot be determined is it taken as unbounded.
C26_SpaceCheck ==
    (/\ callResult # Null
     /\ callArgs.statfsWorks
     /\ callArgs.sourceSize > callArgs.free) =>
        callResult[1] = "Insufficient disk space"

\* The part that holds: the error is thrown when the target path exists
\* already, and never when the source fits or the file system does not answer.
C26_SpaceCheckOfExistingTarget ==
    callResult # Null =>
        /\ (/\ callArgs.targetExists
            /\ callArgs.statfsWorks
            /\ callArgs.sourceSize > callArgs.free) =>
              callResult[1] = "Insufficient disk space"
        /\ (callArgs.sourceSize <= callArgs.free \/ ~callArgs.statfsWorks) =>
              callResult[1] = "none"


\* C27: the intermediate file writeFileAtomic copies the source into lies in
\* the destination tree, not in the temp directory, so that the rename onto
\* the target stays within one file system and never needs the copy fallback.
C27_IntermediateInDestinationTree ==
    \A i \in DOMAIN units :
        units[i].tempPath # Null =>
            /\ units[i].tempPath \notin DOMAIN tmpDisk
            /\ units[i].tempPath \notin tempFiles
            /\ units[i].pc \notin {"cXCopy", "cUnlink"}

\* The part that holds: the copy fallback is taken only when the temp
\* directory, which holds the source, and the destination are on different
\* file systems.
C27_FallbackOnlyAcrossFileSystems ==
    \A i \in DOMAIN units : units[i].pc \in {"cXCopy", "cUnlink"} => crossDevice


\* C28: the count query and the cursor query of a run select the same
\* records: without a limit, and the store left alone, stats.total is the
\* number of records the cursor yields.
C28_TotalIsCursorSize ==
    callResult # Null => callResult[1].total = Len(callResult[1].yielded)

\* The part that holds: the two agree when the filter has no clause on the
\* status and no record it selects is failed.
C28_TotalWithoutFailedRecords ==
    (/\ callResult # Null
     /\ callArgs.filter.status = NoClause
     /\ \A k \in callArgs.filter.docs : callArgs.statuses[k] # "failed") =>
        callResult[1].total = Len(callResult[1].yielded)


\* the elements of a sequence
Range(seq) == {seq[k] : k \in 1..Len(seq)}

\* C29: the query sent to the store keeps every clause of the caller's
\* filter, a clause on the status field included: every record the cursor
\* yields satisfies the caller's filter.
C29_CallerFilterKept ==
    callResult # Null =>
        \A k \in Range(callResult[1]) :
            /\ k \in callArgs.filter.docs
            /\ Matches(callArgs.filter.status, callArgs.statuses[k])

\* The part that holds: the clauses on other fields than the status are kept.
C29_OtherClausesKept ==
    callResult # Null => Range(callResult[1]) \subseteq callArgs.filter.docs


\* the temp paths a unit holds
PathsOf(u) == AttemptTemps(u) \cup ({u.tempPath} \ {Null})

AfterNormalize == {"encode", "cSpace", "cCopy", "cXCopy", "cUnlink", "wCompleted"}

\* Unit i has failed, and in every attempt its normalize stage reported
\* silence: every attempt came to the catch block (processing and failed were
\* written), threw the silence error or the error of the store, and the only
\* failures of the environment were rejected writes of status failed.
SilentInEveryAttempt(i) ==
    LET u == units[i] IN
    /\ Doc(i).data = "silent"
    /\ u.outcome = "failure"
    /\ writes[i] = Repeat(<<"processing", "failed">>, Len(u.errors))
    /\ Range(u.errors) \subseteq {"silent", "store error"}
    /\ UnitFaults - faultsLeft =
           Cardinality({k \in 1..Len(u.errors) : u.errors[k] = "store error"})

\* C31: a record whose normalize stage reports silence in every attempt is
\* never encoded or committed, ends after maxRetries + 1 attempts with the
\* persisted status failed and the silence error as its message, and the same
\* error is the one recorded for it in the statistics of the batch.
C31_SilenceFails ==
    \A i \in Launched :
        /\ Doc(i).data = "silent" =>
              /\ units[i].pc \notin AfterNormalize
              /\ "completed" \notin Range(writes[i])
              /\ \A path \in DOMAIN outDisk : outDisk[path].of # Doc(i).hash
        /\ SilentInEveryAttempt(i) =>
              /\ units[i].attempt = maxRetries + 1
              /\ status[i].status = "failed"
              /\ status[i].error = "silent"
              /\ Recorded(i) = {[hash |-> HashOrUnknown(i), error |-> "silent"]}

\* The part that holds: when the store has accepted every write of status
\* failed, so that every attempt threw the silence error.
C31_SilenceFailsWithStore ==
    \A i \in Launched :
        /\ Doc(i).data = "silent" =>
              /\ units[i].pc \notin AfterNormalize
              /\ "completed" \notin Range(writes[i])
              /\ \A path \in DOMAIN outDisk : outDisk[path].of # Doc(i).hash
        /\ (SilentInEveryAttempt(i) /\ Range(units[i].errors) = {"silent"}) =>
              /\ units[i].attempt = maxRetries + 1
              /\ status[i].status = "failed"
              /\ status[i].error = "silent"
              /\ Recorded(i) = {[hash |-> HashOrUnknown(i), error |-> "silent"]}


\* the last element of a sequence that is not empty
Last(seq) == seq[Len(seq)]

\* the finally block of processMidiDocument runs in the step of unit i
Releases(i) ==
    /\ units[i].pc \in {"wCompleted", "wFailed"}
    /\ units'[i].pc \in {"done", "backoff"}

\* the paths deleteTempFile is called with in the step of unit i
ReleasedBy(i) ==
    IF Releases(i) THEN AttemptTemps(units[i])
    ELSE IF units[i].pc = "rSpawn" /\ units'[i].pc # "rSpawn"
         THEN {TempPath(i, units[i].attempt, "mid")}
    ELSE {}

\* C32: a path getTempFilePath returns is in the live set when it is returned
\* and was not returned before; deleteTempFile never throws: after it the file
\* is absent and the path deregistered, or (the deletion failed) the file and
\* the registration are as they were, and the attempt that released the path
\* ends as the store write alone decides.
C32_AllocateAndRelease ==
    [][\A i \in DOMAIN units :
          LET u == units[i]
              v == units'[i] IN
          /\ \A path \in tempFiles' \ tempFiles :
                /\ path \notin DOMAIN tmpDisk
                /\ \A j \in DOMAIN units : path \notin PathsOf(units[j])
          /\ \A path \in PathsOf(v) \ PathsOf(u) :
                /\ path \in tempFiles' \ tempFiles
                /\ path[1] = i /\ path[2] = v.attempt
          /\ \A path \in tempFiles \ tempFiles' :
                path \in ReleasedBy(path[1]) /\ path \notin DOMAIN tmpDisk'
          /\ \A path \in ReleasedBy(i) :
                \/ path \notin DOMAIN tmpDisk' /\ path \notin tempFiles'
                \/ /\ path \in DOMAIN tmpDisk /\ path \in tempFiles
                   /\ path \in DOMAIN tmpDisk' /\ path \in tempFiles'
                   /\ tmpDisk'[path] = tmpDisk[path]
          /\ (Releases(i) /\ u.pc = "wCompleted") =>
                /\ status'[i].status = "completed"
                /\ v.pc = "done" /\ v.outcome = "success"
                /\ stats' = recordSuccess(stats)
          /\ (Releases(i) /\ u.pc = "wFailed") =>
                /\ v.errors = Append(u.errors,
                                     IF status'[i] # status[i] THEN u.lastError
                                                               ELSE "store error")
                /\ v.outcome = IF MayRetry(u.attempt) THEN "pending" ELSE "failure"]_vars

\* an attempt has succeeded although a deletion of its finally block failed:
\* the file is still there and its path still live
C32_Witness ==
    \E i \in Launched :
        /\ units[i].outcome = "success"
        /\ status[i].status = "completed"
        /\ \E kind \in {"wav", "norm", "mp3"} :
              /\ TempPath(i, units[i].attempt, kind) \in tempFiles
              /\ TempPath(i, units[i].attempt, kind) \in DOMAIN tmpDisk


\* the sanitizing rules on a component
ObeysRules(component) ==
    /\ \A k \in 1..Len(component) : component[k] \notin ForbiddenChars
    /\ \A k \in 1..(Len(component) - 1) :
          ~(component[k] \in WhiteSpace /\ component[k + 1] \in WhiteSpace)
    /\ component # <<>> =>
          /\ component[1] \notin WhiteSpace \cup {"."}
          /\ component[Len(component)] \notin WhiteSpace \cup {"."}
    /\ Len(component) <= 200

\* C33: for every input string the component sanitizePathComponent returns
\* has no illegal character, no run of white space, no leading or trailing
\* white space or dot and at most 200 characters, and sanitizing it again
\* returns it unchanged.
C33_AllRulesAtOnce ==
    (callResult # Null /\ callArgs.str \notin NonStringValues) =>
        /\ ObeysRules(callResult[1])
        /\ sanitizePathComponent(callResult[1]) = callResult[1]

\* The part that holds: a string of at most 200 characters, which the cap
\* leaves whole; and for every string, all rules but the one on the end.
C33_RulesBelowCap ==
    (callResult # Null /\ callArgs.str \notin NonStringValues) =>
        /\ Len(callArgs.str) <= MaxComponentLength =>
              /\ ObeysRules(callResult[1])
              /\ sanitizePathComponent(callResult[1]) = callResult[1]
        /\ ObeysRules(trimDotsAndSpaces(callResult[1]))
        /\ sanitizePathComponent(callResult[1]) = trimDotsAndSpaces(callResult[1])


\* the greatest number of units the pool of processBatch lets run: the size
\* at which it waits before it pulls the next record
PoolBounds(max) ==
    {bound \in 1..20 :
        \A size \in 0..21 : reachedConcurrency(size, max) <=> size >= bound}

\* C34: validateBatchOptions accepts the options the command line gives iff
\* concurrency is a number between 1 and 20 and limit is null or a positive
\* integer, NaN included; so an accepted run has a bound between 1 and 20 at
\* which the pool of processBatch waits.
C34_ValidatedOptions ==
    callResult # Null =>
        LET options == callResult[1].options IN
        /\ callResult[1].outcome = "accepted" <=>
              /\ options.concurrency.type = "number"
              /\ options.concurrency.n \in 1..20
              /\ \/ options.limit = JsNull
                 \/ options.limit.type = "number" /\ options.limit.n >= 1
        /\ callResult[1].outcome = "accepted" => PoolBounds(options.concurrency) # {}

\* The part that holds: options whose concurrency is a number.
C34_ValidatedNumbers ==
    (callResult # Null /\ callResult[1].options.concurrency.type = "number") =>
        LET options == callResult[1].options IN
        /\ callResult[1].outcome = "accepted" <=>
              /\ options.concurrency.n \in 1..20
              /\ \/ options.limit = JsNull
                 \/ options.limit.type = "number" /\ options.limit.n >= 1
        /\ callResult[1].outcome = "accepted" =>
              PoolBounds(options.concurrency) = {options.concurrency.n}


\* the paths of the output tree that hold a file written for record i
ArtifactsOf(i) == {path \in DOMAIN outDisk : outDisk[path].of = Doc(i).hash}

\* C35: over all attempts of a record at most one output file is written for
\* it: the output tree never holds two files of the same record, also when
\* the write of status completed fails after the commit and the record is
\* retried.
C35_OneArtifactPerRecord ==
    \A i \in Launched : Cardinality(ArtifactsOf(i)) <= 1

\* The part that holds: a record's files are at its resolved path and at the
\* one path derived from it with the record's hash, and a unit that has not
\* come to the end of a commit has written at most one of them.
C35_ArtifactsAtResolvedPaths ==
    \A i \in Launched :
        /\ ArtifactsOf(i) \subseteq
               {generateOutputPath(Doc(i)),
                generateUniquePath(generateOutputPath(Doc(i)), Doc(i).hash)}
        /\ (units[i].attempt = 1 /\ units[i].pc # "done" /\ units[i].pc # "backoff") =>
               Cardinality(ArtifactsOf(i)) <= 1


\* C36: when processBatch has settled, by returning or by rejecting, no unit
\* it launched is still outstanding (so none writes a status, calls a
\* transform or commits afterwards).
C36_NoUnitAfterSettle ==
    mainPc \in {"returned", "rejected"} => Outstanding = {}

\* The part that holds: processBatch returns only after every unit has
\* settled, and a settled unit does nothing more.
C36_NoUnitAfterReturn ==
    mainPc = "returned" =>
        /\ Outstanding = {}
        /\ activePromises = {}


\* no unit is in flight and nothing has failed, so no deletion has
Quiet == Outstanding = {} /\ faultsLeft = MaxFaults

\* C37: whenever no unit is in flight and no deletion has failed, the live
\* set is empty: every path a finished attempt allocated is deregistered, the
\* intermediate path of writeFileAtomic included.
C37_LiveSetEmptyWhenIdle == Quiet => tempFiles = {}

\* The part that holds: what is left in the live set are the intermediate
\* paths of writeFileAtomic, one for each record that was committed, and
\* their files are gone.
C37_OnlyIntermediatePathsLive ==
    Quiet =>
        /\ \A path \in tempFiles : path[3] = "mp3.tmp" /\ path \notin DOMAIN tmpDisk
        /\ Cardinality(tempFiles) = stats.successful


\* C38: for every combination of present and absent metadata sources, the
\* artist, album and title the output path is built from are the artist,
\* album and title the encoder writes into the tags (and the completed status
\* keeps).
C38_PathAndTagsAgree ==
    callResult # Null => callResult[1].path = callResult[1].tags

\* The part that holds: records without redacted metadata and without an
\* album of musicbrainz, and records with at most one source.
C38_AgreeWithoutRedacted ==
    (/\ callResult # Null
     /\ \/ callArgs.present \cap {"Ra", "Rb", "Rr", "Rt", "Tb", "Ob"} = {}
        \/ Cardinality(callArgs.present \ {"Rr", "Tb", "Ob"}) <= 1
           /\ callArgs.present \cap {"Rr", "Tb", "Ob"} = {})
        => callResult[1].path = callResult[1].tags


\* C39: in every state of a run processed = successful + failed, the list of
\* failures has one entry for each failed record, processed counts the units
\* that have settled and so never exceeds the records pulled from the cursor;
\* and no counter ever decreases (the list of failures only grows at its end).
C39_StatsConsistent ==
    /\ [](/\ stats.processed = stats.successful + stats.failed
          /\ Len(stats.errors) = stats.failed
          /\ stats.processed = Cardinality({i \in Launched : Settled(i)})
          /\ stats.successful =
                 Cardinality({i \in Launched : units[i].outcome = "success"})
          /\ stats.processed <= pulled)
    /\ [][/\ stats'.processed \in {stats.processed, stats.processed + 1}
          /\ stats'.successful >= stats.successful
          /\ stats'.failed >= stats.failed
          /\ Len(stats'.errors) >= Len(stats.errors)
          /\ SubSeq(stats'.errors, 1, Len(stats.errors)) = stats.errors
          /\ pulled' >= pulled]_vars

\* records have succeeded and failed while another one is still in flight
C39_Witness ==
    /\ stats.successful > 0
    /\ stats.failed > 0
    /\ stats.processed < pulled
    /\ Outstanding # {}

=============================================================================
